---- MODULE Spec2Model ----
(***************************************************************************)
(* Model of the HardRock table-tennis scraper: the change-tracked store    *)
(* (hardrock_scraper/cosmos_client.py), the refresh scheduler              *)
(* (hardrock_scraper/scraper.py) and the data model (models.py).           *)
(*                                                                         *)
(* Conventions.  Python None of an optional object is the record None, of  *)
(* an optional string the string NoneStr.  A datetime is [dt |-> t] with t *)
(* an integer instant of the clock `now`; its isoformat() string is        *)
(* [iso |-> t], ordered as ISO-8601 strings order (by instant).            *)
(***************************************************************************)
EXTENDS Integers, Sequences, FiniteSets, TLC

(***************************************************************************)
(* Bounds of the model.                                                    *)
(***************************************************************************)
MaxClock == 2        \* the clock `now` runs over 0..MaxClock
MaxBatch == 2        \* longest batch handed to store_matches
MaxCalls == 1        \* store_matches calls per behaviour
SeedMerges == 200    \* merges of an earlier run behind a seeded record
MaxMerges == 150     \* merges of the history-cap scenario

(***************************************************************************)
(* Data model (models.py).                                                 *)
(***************************************************************************)
None == [none |-> TRUE]
NoneStr == "None"

Threads == {"t1", "t2"}
Ids == {"m1", "m2"}

Datetime(t) == [dt |-> t]
IsoFormat(d) == [iso |-> d.dt]

\* MatchStatus(Enum): member name -> value
MatchStatus == {"LIVE", "UPCOMING", "ENDED"}
StatusValue(s) ==
  CASE s = "LIVE" -> "live"
    [] s = "UPCOMING" -> "upcoming"
    [] s = "ENDED" -> "ended"

Player(n) == [name |-> n, ranking |-> NoneStr, country |-> NoneStr]

Score(cs, ss) == [current_set |-> cs, set_scores |-> ss, total_games |-> NoneStr]
S1 == Score(1, <<"3-1">>)
S2 == Score(2, <<"11-9", "2-0">>)

\* Odds.__post_init__ stamps the observation with datetime.now()
Odds(p1, p2, t) ==
  [player1_moneyline |-> p1, player2_moneyline |-> p2,
   handicap_line |-> NoneStr, player1_handicap |-> NoneStr,
   player2_handicap |-> NoneStr, over_under_line |-> NoneStr,
   over_odds |-> NoneStr, under_odds |-> NoneStr,
   timestamp |-> Datetime(t)]
O1(t) == Odds("-110", "+120", t)
O2(t) == Odds("-150", NoneStr, t)

Match(id, p1, p2, st, sc, od, lg) ==
  [match_id |-> id, player1 |-> Player(p1), player2 |-> Player(p2),
   status |-> st, score |-> sc, odds |-> od,
   start_time |-> None, league |-> lg, tournament |-> NoneStr]

is_live(m) == m.status = "LIVE"

\* Match.to_dict
to_dict(m) ==
  [match_id |-> m.match_id,
   player1 |-> [name |-> m.player1.name, ranking |-> m.player1.ranking,
                country |-> m.player1.country],
   player2 |-> [name |-> m.player2.name, ranking |-> m.player2.ranking,
                country |-> m.player2.country],
   status |-> StatusValue(m.status),
   score |-> IF m.score # None
             THEN [current_set |-> m.score.current_set,
                   set_scores |-> m.score.set_scores,
                   total_games |-> m.score.total_games]
             ELSE None,
   odds |-> IF m.odds # None
            THEN [player1_moneyline |-> m.odds.player1_moneyline,
                  player2_moneyline |-> m.odds.player2_moneyline,
                  handicap_line |-> m.odds.handicap_line,
                  player1_handicap |-> m.odds.player1_handicap,
                  player2_handicap |-> m.odds.player2_handicap,
                  over_under_line |-> m.odds.over_under_line,
                  over_odds |-> m.odds.over_odds,
                  under_odds |-> m.odds.under_odds,
                  timestamp |-> IF m.odds.timestamp # None
                                THEN IsoFormat(m.odds.timestamp) ELSE None]
            ELSE None,
   start_time |-> IF m.start_time # None THEN IsoFormat(m.start_time) ELSE None,
   league |-> m.league,
   tournament |-> m.tournament]

(***************************************************************************)
(* Change-tracked store (cosmos_client.py): pure parts.                    *)
(***************************************************************************)
max_history_entries == 100

\* dict.get(key, default)
Get(d, k, default) == IF k \in DOMAIN d THEN d[k] ELSE default

\* list[-n:]
LastN(s, n) == IF Len(s) > n THEN SubSeq(s, Len(s) - n + 1, Len(s)) ELSE s

ScoreEntry(sc, ct) ==
  [timestamp |-> ct, current_set |-> sc.current_set,
   set_scores |-> sc.set_scores, total_games |-> sc.total_games]

OddsEntry(od, ct) ==
  [timestamp |-> ct,
   player1_moneyline |-> od.player1_moneyline,
   player2_moneyline |-> od.player2_moneyline,
   handicap_line |-> od.handicap_line,
   player1_handicap |-> od.player1_handicap,
   player2_handicap |-> od.player2_handicap,
   over_under_line |-> od.over_under_line,
   over_odds |-> od.over_odds,
   under_odds |-> od.under_odds]

StatusEntry(st, ct) == [timestamp |-> ct, status |-> StatusValue(st)]

\* CosmosDBClient._score_changed
_score_changed(old_score, new_score) ==
  \/ old_score.current_set # new_score.current_set
  \/ old_score.set_scores # new_score.set_scores
  \/ old_score.total_games # new_score.total_games

\* a slip: the comparison does not ignore the entry's timestamp
OddsChangedWithTimestamp(old_odds, new_odds) == old_odds # new_odds

\* CosmosDBClient._odds_changed
_odds_changed(old_odds, new_odds) ==
  \/ old_odds.player1_moneyline # new_odds.player1_moneyline
  \/ old_odds.player2_moneyline # new_odds.player2_moneyline
  \/ old_odds.handicap_line # new_odds.handicap_line
  \/ old_odds.player1_handicap # new_odds.player1_handicap
  \/ old_odds.player2_handicap # new_odds.player2_handicap
  \/ old_odds.over_under_line # new_odds.over_under_line
  \/ old_odds.over_odds # new_odds.over_odds
  \/ old_odds.under_odds # new_odds.under_odds

\* the document fields shared by _match_to_document and
\* _update_match_with_history: to_dict() plus the store's own fields
Document(m, id, match_id, created, updated, source, sh, oh, th) ==
  LET d == to_dict(m) IN
  [id |-> id, match_id |-> match_id,
   player1 |-> d.player1, player2 |-> d.player2, status |-> d.status,
   score |-> d.score, odds |-> d.odds, start_time |-> d.start_time,
   league |-> d.league, tournament |-> d.tournament,
   created_at |-> created, last_updated |-> updated,
   scrape_source |-> source,
   score_history |-> sh, odds_history |-> oh, status_history |-> th]

\* a slip: the status history of a new record is left empty
MatchToDocumentUnseededStatus(m, t) ==
  LET current_time == IsoFormat(Datetime(t)) IN
  Document(m, m.match_id, m.match_id, current_time, current_time, "hardrock",
           IF m.score # None THEN <<ScoreEntry(m.score, current_time)>> ELSE <<>>,
           IF m.odds # None THEN <<OddsEntry(m.odds, current_time)>> ELSE <<>>,
           <<>>)

\* CosmosDBClient._match_to_document, called at instant t
_match_to_document(m, t) ==
  LET current_time == IsoFormat(Datetime(t)) IN
  Document(m, m.match_id, m.match_id, current_time, current_time, "hardrock",
           IF m.score # None THEN <<ScoreEntry(m.score, current_time)>> ELSE <<>>,
           IF m.odds # None THEN <<OddsEntry(m.odds, current_time)>> ELSE <<>>,
           <<StatusEntry(m.status, current_time)>>)

\* a slip: a present score is recorded whether or not it changed
UpdateScoreHistoryAlways(hist, m, ct) ==
  IF m.score # None THEN Append(hist, ScoreEntry(m.score, ct)) ELSE hist

\* the score part of _update_match_with_history (lines 288-301)
UpdateScoreHistory(hist, m, ct) ==
  IF m.score # None
     /\ (hist = <<>> \/ _score_changed(hist[Len(hist)], ScoreEntry(m.score, ct)))
  THEN Append(hist, ScoreEntry(m.score, ct))
  ELSE hist

\* the odds part of _update_match_with_history (lines 303-321)
UpdateOddsHistory(hist, m, ct) ==
  IF m.odds # None
     /\ (hist = <<>> \/ _odds_changed(hist[Len(hist)], OddsEntry(m.odds, ct)))
  THEN Append(hist, OddsEntry(m.odds, ct))
  ELSE hist

\* a slip: the new entry is put at the head of the list (insert(0, ...))
UpdateStatusHistoryAtHead(hist, m, ct) ==
  IF hist = <<>> \/ hist[Len(hist)].status # StatusValue(m.status)
  THEN <<StatusEntry(m.status, ct)>> \o hist
  ELSE hist

\* the status part of _update_match_with_history (lines 323-329)
UpdateStatusHistory(hist, m, ct) ==
  IF hist = <<>> \/ hist[Len(hist)].status # StatusValue(m.status)
  THEN Append(hist, StatusEntry(m.status, ct))
  ELSE hist

\* a slip: the cap keeps the oldest entries (hist[:n]) instead of the newest
LimitHistoryKeepOldest(hist) ==
  IF Len(hist) > max_history_entries THEN SubSeq(hist, 1, max_history_entries) ELSE hist

\* the history cap of _update_match_with_history (lines 331-338)
LimitHistory(hist) ==
  IF Len(hist) > max_history_entries THEN LastN(hist, max_history_entries) ELSE hist

\* a slip: the histories are updated but the snapshot fields of the stored
\* record are carried forward instead of being replaced by the new entity's
UpdateKeepingSnapshot(existing_doc, new_match, t) ==
  LET current_time == IsoFormat(Datetime(t)) IN
  [existing_doc EXCEPT
     !.last_updated = current_time,
     !.score_history = LimitHistory(UpdateScoreHistory(existing_doc.score_history,
                                                       new_match, current_time)),
     !.odds_history = LimitHistory(UpdateOddsHistory(existing_doc.odds_history,
                                                     new_match, current_time)),
     !.status_history = LimitHistory(UpdateStatusHistory(existing_doc.status_history,
                                                         new_match, current_time))]

\* a slip: last_updated is refreshed only when a history got a new entry
UpdateStampingChangesOnly(existing_doc, new_match, t) ==
  LET current_time == IsoFormat(Datetime(t))
      sh == LimitHistory(UpdateScoreHistory(Get(existing_doc, "score_history", <<>>),
                                            new_match, current_time))
      oh == LimitHistory(UpdateOddsHistory(Get(existing_doc, "odds_history", <<>>),
                                           new_match, current_time))
      th == LimitHistory(UpdateStatusHistory(Get(existing_doc, "status_history", <<>>),
                                             new_match, current_time))
      same == /\ sh = Get(existing_doc, "score_history", <<>>)
              /\ oh = Get(existing_doc, "odds_history", <<>>)
              /\ th = Get(existing_doc, "status_history", <<>>)
  IN Document(new_match, existing_doc.id, existing_doc.match_id,
              Get(existing_doc, "created_at", current_time),
              IF same THEN existing_doc.last_updated ELSE current_time,
              Get(existing_doc, "scrape_source", "hardrock"), sh, oh, th)

\* CosmosDBClient._update_match_with_history, called at instant t
_update_match_with_history(existing_doc, new_match, t) ==
  LET current_time == IsoFormat(Datetime(t)) IN
  Document(new_match, existing_doc.id, existing_doc.match_id,
           Get(existing_doc, "created_at", current_time), current_time,
           Get(existing_doc, "scrape_source", "hardrock"),
           LimitHistory(UpdateScoreHistory(Get(existing_doc, "score_history", <<>>),
                                           new_match, current_time)),
           LimitHistory(UpdateOddsHistory(Get(existing_doc, "odds_history", <<>>),
                                          new_match, current_time)),
           LimitHistory(UpdateStatusHistory(Get(existing_doc, "status_history", <<>>),
                                            new_match, current_time)))

\* the document store_matches builds for one match (lines 87-92)
BuildDocument(existing_doc, m, t) ==
  IF existing_doc # None
  THEN _update_match_with_history(existing_doc, m, t)
  ELSE _match_to_document(m, t)

(***************************************************************************)
(* Inputs: the entities the extractor hands to the store.  The extractor   *)
(* derives only live and upcoming, and a score only for a live entity      *)
(* (parser.py lines 82-88).                                                *)
(***************************************************************************)
Matches(t) ==
  UNION { { Match(id, "A", "B", "LIVE", S1, O1(t), "TT Cup"),
            Match(id, "A", "B", "UPCOMING", None, None, NoneStr) } : id \in Ids }

Batches(t) == UNION { [1..n -> Matches(t)] : n \in 1..MaxBatch }

(***************************************************************************)
(* A record an earlier run of the program left in the container: the       *)
(* result of SeedMerges merges, the last one at instant -1.                *)
(***************************************************************************)
SeedMatch(id, j, t) ==
  IF j % 2 = 1
  THEN Match(id, "X", "Y", "LIVE", IF j % 4 = 1 THEN S1 ELSE S2, O1(t), NoneStr)
  ELSE Match(id, "X", "Y", "UPCOMING", None, O2(t), NoneStr)

SeedTime(j) == j - SeedMerges - 1

\* the record after the first j of those merges: every merge changes the
\* status and the odds, every second one (the live ones) the score
SeedDocAfter(id, j) ==
  LET ct(k) == IsoFormat(Datetime(SeedTime(k)))
      m(k) == SeedMatch(id, k, SeedTime(k))
  IN Document(m(j), id, id, ct(1), ct(j), "hardrock",
       LastN([k \in 1..((j + 1) \div 2) |-> ScoreEntry(m(2 * k - 1).score, ct(2 * k - 1))],
             max_history_entries),
       LastN([k \in 1..j |-> OddsEntry(m(k).odds, ct(k))], max_history_entries),
       LastN([k \in 1..j |-> StatusEntry(m(k).status, ct(k))], max_history_entries))

SeedDoc1 == SeedDocAfter("m1", SeedMerges)
SeedDoc2 == SeedDocAfter("m2", SeedMerges)
SeedDoc(id) == IF id = "m1" THEN SeedDoc1 ELSE SeedDoc2

(***************************************************************************)
(* State.                                                                  *)
(***************************************************************************)
VARIABLES
  now,          \* the clock read by datetime.now()
  store,        \* the container: identifier -> document, or None
  calls,        \* store_matches calls started so far
  s_pc,         \* per thread: position inside store_matches
  s_matches,    \* per thread: the `matches` argument
  s_i,          \* per thread: index of `match` in the for loop
  s_existing,   \* per thread: existing_doc
  s_updated,    \* per thread: updated_doc
  s_count,      \* per thread: stored_count
  s_log,        \* per thread: match ids of the "Failed to store match" errors
  sweeps,       \* delete_old_matches calls started so far
  d_pc,         \* position inside delete_old_matches
  d_cutoff,     \* the cutoff instant the query computed
  d_items,      \* items_to_delete still to be visited
  d_count,      \* deleted_count
  d_log,        \* ids of the "Failed to delete match" errors
  is_monitoring,      \* HardRockScraper.is_monitoring
  stop_event,         \* HardRockScraper.stop_event is set
  last_matches,       \* HardRockScraper.last_matches
  last_html,          \* HardRockScraper.last_html
  last_full_refresh,  \* HardRockScraper.last_full_refresh (an instant)
  auto_store,         \* auto_store and a cosmos_client are configured
  chrome,             \* the adapter: "none" (no driver), "alive" or "dead"
  starts,             \* start_monitoring calls that started a thread
  store_calls,        \* batches the scheduler handed to store_matches
  m_pc,               \* per monitoring thread: position in monitor()
  m_callback,         \* per monitoring thread: a callback was given
  m_max,              \* per monitoring thread: max_duration (0: None)
  m_start,            \* per monitoring thread: start_time (an instant)
  m_matches,          \* per monitoring thread: the local `matches`
  m_interval,         \* per monitoring thread: the local refresh_interval
  m_iters,            \* per monitoring thread: loop iterations entered
  m_loads,            \* per monitoring thread: full refreshes attempted
  o_pc,               \* orchestrator: position inside main()
  o_i,                \* orchestrator: index of the league in the current for loop
  o_start,            \* orchestrator: start_time (an instant)
  o_stop,             \* per league: the scraper's stop_event is set
  o_thread,           \* per league: state of the monitoring thread
  o_joined,           \* per league: thread.join(timeout) was called and returned
  o_closed,           \* per league: the scraper's driver has been quit
  o_ret,              \* orchestrator: value returned by main()
  o_last_cleanup,     \* orchestrator: last_cleanup (an instant)
  o_passes,           \* orchestrator: passes of the supervising loop made
  p_pc,               \* extractor: position of the parse_html call
  p_html,             \* extractor: the markup handed to parse_html
  p_out,              \* extractor: the list parse_html returns
  p_c,                \* extractor: the container handed to _parse_match_container
  p_res               \* extractor: what _parse_match_container returns

storeVars == <<store>>
callVars == <<calls, s_pc, s_matches, s_i, s_existing, s_updated, s_count, s_log>>
sweepVars == <<sweeps, d_pc, d_cutoff, d_items, d_count, d_log>>
scraperVars == <<is_monitoring, stop_event, last_matches, last_html,
                 last_full_refresh, auto_store, chrome, starts, store_calls>>
monitorVars == <<m_pc, m_callback, m_max, m_start, m_matches, m_interval,
                 m_iters, m_loads>>
schedVars == <<scraperVars, monitorVars>>
orchVars == <<o_pc, o_i, o_start, o_stop, o_thread, o_joined, o_closed, o_ret,
              o_last_cleanup, o_passes>>
parseVars == <<p_pc, p_html, p_out, p_c, p_res>>
otherVars == <<orchVars, parseVars>>
vars == <<now, store, callVars, sweepVars, schedVars, otherVars>>

\* the leagues the orchestrator runs one scraper for
Leagues == <<"l1", "l2">>
LeagueIds == 1..Len(Leagues)

\* main() has not been entered
InitOrch ==
  /\ o_pc = "none"
  /\ o_i = 0
  /\ o_start = 0
  /\ o_stop = [l \in LeagueIds |-> FALSE]
  /\ o_thread = [l \in LeagueIds |-> "none"]
  /\ o_joined = [l \in LeagueIds |-> FALSE]
  /\ o_closed = [l \in LeagueIds |-> FALSE]
  /\ o_ret = NoneStr
  /\ o_last_cleanup = 0
  /\ o_passes = 0

\* parse_html has not been called
InitParse ==
  /\ p_pc = "none"
  /\ p_html = None
  /\ p_out = <<>>
  /\ p_c = None
  /\ p_res = None

InitOther == InitOrch /\ InitParse

CurMatch(t) == s_matches[t][s_i[t]]

InitStore ==
  /\ now = 0
  /\ store \in [Ids -> {None, SeedDoc1, SeedDoc2}]
  /\ \A id \in Ids : store[id] # None => store[id].id = id

InitCalls ==
  /\ calls = 0
  /\ s_pc = [t \in Threads |-> "idle"]
  /\ s_matches = [t \in Threads |-> <<>>]
  /\ s_i = [t \in Threads |-> 0]
  /\ s_existing = [t \in Threads |-> None]
  /\ s_updated = [t \in Threads |-> None]
  /\ s_count = [t \in Threads |-> 0]
  /\ s_log = [t \in Threads |-> <<>>]

\* the clock advances (it never goes back)
Tick ==
  /\ now < MaxClock
  /\ now' = now + 1
  /\ UNCHANGED <<store, callVars, sweepVars, schedVars, otherVars>>

(***************************************************************************)
(* CosmosDBClient.store_matches, one step per store round trip.            *)
(***************************************************************************)
\* store_matches(matches) is entered: stored_count = 0, the loop starts
\* (an empty list returns 0 at once)
StoreMatchesCall(t, matches) ==
  /\ s_pc[t] = "idle"
  /\ calls' = calls + 1
  /\ s_matches' = [s_matches EXCEPT ![t] = matches]
  /\ s_i' = [s_i EXCEPT ![t] = 1]
  /\ s_count' = [s_count EXCEPT ![t] = 0]
  /\ s_log' = [s_log EXCEPT ![t] = <<>>]
  /\ s_existing' = [s_existing EXCEPT ![t] = None]
  /\ s_updated' = [s_updated EXCEPT ![t] = None]
  /\ s_pc' = [s_pc EXCEPT ![t] = IF matches = <<>> THEN "returned" ELSE "get"]
  /\ UNCHANGED <<now, store, sweepVars, schedVars, otherVars>>

\* a caller hands store_matches a batch the extractor produced now
Call(t) ==
  /\ calls < MaxCalls
  /\ \E matches \in Batches(now) : StoreMatchesCall(t, matches)

\* get_match: read_item returns the document; a missing item raises the
\* not-found CosmosHttpResponseError, which get_match turns into None
GetMatchRead(t) ==
  /\ s_pc[t] = "get"
  /\ s_existing' = [s_existing EXCEPT ![t] = store[CurMatch(t).match_id]]
  /\ s_pc' = [s_pc EXCEPT ![t] = "build"]
  /\ UNCHANGED <<now, store, calls, s_matches, s_i, s_updated, s_count, s_log, sweepVars, schedVars, otherVars>>

\* get_match: read_item of an existing item raises some other
\* CosmosHttpResponseError (throttling, timeout); get_match returns None
GetMatchError(t) ==
  /\ s_pc[t] = "get"
  /\ store[CurMatch(t).match_id] # None
  /\ s_existing' = [s_existing EXCEPT ![t] = None]
  /\ s_pc' = [s_pc EXCEPT ![t] = "build"]
  /\ UNCHANGED <<now, store, calls, s_matches, s_i, s_updated, s_count, s_log, sweepVars, schedVars, otherVars>>

\* lines 87-92: updated_doc is built, stamped with datetime.now()
BuildDoc(t) ==
  /\ s_pc[t] = "build"
  /\ s_updated' = [s_updated EXCEPT ![t] = BuildDocument(s_existing[t], CurMatch(t), now)]
  /\ s_pc' = [s_pc EXCEPT ![t] = "upsert"]
  /\ UNCHANGED <<now, store, calls, s_matches, s_i, s_existing, s_count, s_log, sweepVars, schedVars, otherVars>>

\* the for loop moves to the next match, or the function returns
NextPc(t) == IF s_i[t] < Len(s_matches[t]) THEN "get" ELSE "returned"

\* a slip: a write over a record that changed since it was read is dropped
\* (first write wins), and still counted
UpsertUnlessChanged(t) ==
  /\ s_pc[t] = "upsert"
  /\ store' = IF store[s_updated[t].id] = s_existing[t]
              THEN [store EXCEPT ![s_updated[t].id] = s_updated[t]]
              ELSE store
  /\ s_count' = [s_count EXCEPT ![t] = @ + 1]
  /\ s_i' = [s_i EXCEPT ![t] = @ + 1]
  /\ s_pc' = [s_pc EXCEPT ![t] = NextPc(t)]
  /\ UNCHANGED <<now, calls, s_matches, s_existing, s_updated, s_log, sweepVars, schedVars, otherVars>>

\* upsert_item succeeds: stored_count += 1
UpsertOk(t) ==
  /\ s_pc[t] = "upsert"
  /\ store' = [store EXCEPT ![s_updated[t].id] = s_updated[t]]
  /\ s_count' = [s_count EXCEPT ![t] = @ + 1]
  /\ s_i' = [s_i EXCEPT ![t] = @ + 1]
  /\ s_pc' = [s_pc EXCEPT ![t] = NextPc(t)]
  /\ UNCHANGED <<now, calls, s_matches, s_existing, s_updated, s_log, sweepVars, schedVars, otherVars>>

\* a slip: the handler leaves the loop instead of continuing it
BreakPc(t) == "returned"

\* the except handler's `continue` (lines 98-100)
ContinuePc(t) == NextPc(t)

\* upsert_item raises CosmosHttpResponseError: logged, `continue`
UpsertError(t) ==
  /\ s_pc[t] = "upsert"
  /\ s_log' = [s_log EXCEPT ![t] = Append(@, CurMatch(t).match_id)]
  /\ s_i' = [s_i EXCEPT ![t] = @ + 1]
  /\ s_pc' = [s_pc EXCEPT ![t] = ContinuePc(t)]
  /\ UNCHANGED <<now, store, calls, s_matches, s_existing, s_updated, s_count, sweepVars, schedVars, otherVars>>

\* the caller takes the returned stored_count
StoreMatchesReturn(t) ==
  /\ s_pc[t] = "returned"
  /\ s_pc' = [s_pc EXCEPT ![t] = "idle"]
  /\ UNCHANGED <<now, store, calls, s_matches, s_i, s_existing, s_updated, s_count, s_log, sweepVars, schedVars, otherVars>>

(***************************************************************************)
(* CosmosDBClient.delete_old_matches, one step per store round trip.       *)
(***************************************************************************)
MaxSweeps == 1       \* delete_old_matches calls per behaviour
Days == {1, 2}       \* the `days` argument, in clock units

InitSweep ==
  /\ sweeps = 0
  /\ d_pc = "idle"
  /\ d_cutoff = 0
  /\ d_items = {}
  /\ d_count = 0
  /\ d_log = {}

\* ISO-8601 strings compare as their instants do
IsoLE(a, b) == a.iso <= b.iso

\* a slip: the comparison is turned round and selects the recent records
QueryRecent(cutoff) ==
  { [id |-> store[id].id, match_id |-> store[id].match_id] :
      id \in { i \in Ids : store[i] # None /\ IsoLE(IsoFormat(Datetime(cutoff)), store[i].last_updated) } }

\* SELECT c.id, c.match_id FROM c WHERE c.last_updated <= cutoff
QueryOld(cutoff) ==
  { [id |-> store[id].id, match_id |-> store[id].match_id] :
      id \in { i \in Ids : store[i] # None /\ IsoLE(store[i].last_updated, IsoFormat(Datetime(cutoff))) } }

\* delete_old_matches(days): the query runs, with the store's clock giving
\* the cutoff DateTimeAdd('day', -days, GetCurrentDateTime())
SweepQuery ==
  \E days \in Days :
  /\ d_pc = "idle"
  /\ sweeps < MaxSweeps
  /\ sweeps' = sweeps + 1
  /\ d_cutoff' = now - days
  /\ d_items' = QueryOld(now - days)
  /\ d_count' = 0
  /\ d_log' = {}
  /\ d_pc' = "delete"
  /\ UNCHANGED <<now, store, callVars, schedVars, otherVars>>

\* the query raises: delete_old_matches propagates the exception
SweepQueryError ==
  \E days \in Days :
  /\ d_pc = "idle"
  /\ sweeps < MaxSweeps
  /\ sweeps' = sweeps + 1
  /\ d_cutoff' = now - days
  /\ d_items' = {}
  /\ d_count' = 0
  /\ d_log' = {}
  /\ d_pc' = "raised"
  /\ UNCHANGED <<now, store, callVars, schedVars, otherVars>>

\* a slip: the handler leaves the loop at the first failed delete
SweepAbandon(item) == {}

\* the for loop goes on with the items not yet visited
SweepRemaining(item) == d_items \ {item}

\* delete_item succeeds: deleted_count += 1
SweepDeleteOk ==
  \E item \in d_items :
  /\ d_pc = "delete"
  /\ store[item.match_id] # None
  /\ store' = [store EXCEPT ![item.match_id] = None]
  /\ d_count' = d_count + 1
  /\ d_items' = d_items \ {item}
  /\ UNCHANGED <<now, callVars, sweeps, d_pc, d_cutoff, d_log, schedVars, otherVars>>

\* delete_item raises CosmosHttpResponseError (a failure of the transport,
\* or not-found because the record is gone): logged, the loop goes on
SweepDeleteError ==
  \E item \in d_items :
  /\ d_pc = "delete"
  /\ d_log' = d_log \cup {item.id}
  /\ d_items' = SweepRemaining(item)
  /\ UNCHANGED <<now, store, callVars, sweeps, d_pc, d_cutoff, d_count, schedVars, otherVars>>

\* the loop is over: deleted_count is returned
SweepReturn ==
  /\ d_pc = "delete"
  /\ d_items = {}
  /\ d_pc' = "returned"
  /\ UNCHANGED <<now, store, callVars, sweeps, d_cutoff, d_items, d_count, d_log, schedVars, otherVars>>

\* the caller (main's periodic cleanup) takes the result or the exception
SweepDone ==
  /\ d_pc \in {"returned", "raised"}
  /\ d_pc' = "idle"
  /\ UNCHANGED <<now, store, callVars, sweeps, d_cutoff, d_items, d_count, d_log, schedVars, otherVars>>

(***************************************************************************)
(* Refresh scheduler (scraper.py).  Durations are in seconds.              *)
(***************************************************************************)
MaxIter == 2         \* loop iterations per behaviour, all threads together

\* the monitoring threads a behaviour can start
MonThreads == {"k1"}

live_refresh_interval == 15
upcoming_refresh_interval == 180
full_refresh_timeout == 300
RecoveryPause == 5          \* time.sleep(5) before the recovery refresh
ErrorWait == 30             \* stop_event.wait(30) after an error
SmartPause == 2             \* time.sleep(2) after the in-place reload
SecondsPerDay == 86400      \* timedelta.seconds is the remainder within a day

LoadTimes == {1}                    \* seconds a page load takes
MaxDurations == {0, 10}             \* max_duration; 0 stands for None

\* what the adapter can return as page content, and what the extractor
\* makes of it: a list of entities, or ParseError for unusable markup
Pages == {"pLive", "pUpcoming", "pEmpty", "pBad"}
ParseFails(html) == html = "pBad"
parse_html(html) ==
  CASE html = "pLive" -> <<Match("m1", "A", "B", "LIVE", S1, None, NoneStr)>>
    [] html = "pUpcoming" -> <<Match("m1", "A", "B", "UPCOMING", None, None, NoneStr)>>
    [] OTHER -> <<>>

\* (a - b).seconds for instants a >= b
TimedeltaSeconds(a, b) == (a - b) % SecondsPerDay

storeSide == <<store, callVars, sweepVars>>

InitMonitors ==
  /\ is_monitoring = FALSE
  /\ stop_event = FALSE
  /\ last_matches = <<>>
  /\ last_html = ""
  /\ last_full_refresh = 0
  /\ chrome = "none"
  /\ starts = 0
  /\ store_calls = 0
  /\ m_pc = [k \in MonThreads |-> "none"]
  /\ m_callback = [k \in MonThreads |-> FALSE]
  /\ m_max = [k \in MonThreads |-> 0]
  /\ m_start = [k \in MonThreads |-> 0]
  /\ m_matches = [k \in MonThreads |-> <<>>]
  /\ m_interval = [k \in MonThreads |-> 0]
  /\ m_iters = [k \in MonThreads |-> 0]
  /\ m_loads = [k \in MonThreads |-> 0]

\* the scheduler is constructed and not started
InitSched == InitMonitors /\ auto_store = TRUE

\* HardRockScraper._get_refresh_interval
_get_refresh_interval ==
  IF last_matches = <<>> THEN upcoming_refresh_interval
  ELSE IF \E i \in 1..Len(last_matches) : is_live(last_matches[i])
       THEN live_refresh_interval
       ELSE upcoming_refresh_interval

\* HardRockScraper._needs_full_refresh
_needs_full_refresh ==
  \/ TimedeltaSeconds(now, last_full_refresh) > full_refresh_timeout
  \/ chrome # "alive"

\* start_monitoring: refused while is_monitoring, else the flag is set, the
\* stop event cleared and a thread started
StartMonitoring(k) ==
  /\ ~is_monitoring
  /\ m_pc[k] = "none"
  /\ starts' = starts + 1
  /\ is_monitoring' = TRUE
  /\ stop_event' = FALSE
  /\ \E cb \in BOOLEAN, d \in MaxDurations :
       /\ m_callback' = [m_callback EXCEPT ![k] = cb]
       /\ m_max' = [m_max EXCEPT ![k] = d]
  /\ m_pc' = [m_pc EXCEPT ![k] = "spawned"]
  /\ UNCHANGED <<now, storeSide, otherVars, last_matches, last_html, last_full_refresh,
                 auto_store, chrome, store_calls, m_start, m_matches,
                 m_interval, m_iters, m_loads>>

\* stop_monitoring
StopMonitoring ==
  /\ \E k \in DOMAIN m_pc : m_pc[k] # "none"
  /\ ~stop_event \/ is_monitoring
  /\ stop_event' = TRUE
  /\ is_monitoring' = FALSE
  /\ UNCHANGED <<now, storeSide, otherVars, last_matches, last_html, last_full_refresh,
                 auto_store, chrome, starts, store_calls, monitorVars>>

\* the adapter's browser dies
ChromeDies ==
  /\ chrome = "alive"
  /\ chrome' = "dead"
  /\ UNCHANGED <<now, storeSide, otherVars, is_monitoring, stop_event, last_matches,
                 last_html, last_full_refresh, auto_store, starts, store_calls,
                 monitorVars>>

\* _monitor_loop line 125: start_time = datetime.now()
MonitorBegin(k) ==
  /\ m_pc[k] = "spawned"
  /\ m_start' = [m_start EXCEPT ![k] = now]
  /\ m_pc' = [m_pc EXCEPT ![k] = "initial"]
  /\ UNCHANGED <<now, storeSide, otherVars, scraperVars, m_callback, m_max, m_matches,
                 m_interval, m_iters, m_loads>>

\* a slip: the handler of the initial load logs and falls into the loop
InitialFailureContinues == "top"

\* lines 132-134: "Initial load failed" is logged and _monitor_loop returns
AfterInitialFailure == "init_failed"

\* the initial get_matches succeeds: page fetched, parsed, stored
InitialLoadOk(k) ==
  /\ m_pc[k] = "initial"
  /\ \E html \in Pages, d \in LoadTimes :
       /\ ~ParseFails(html)
       /\ now' = now + d
       /\ chrome' = "alive"
       /\ last_html' = html
       /\ last_full_refresh' = now + d
       /\ last_matches' = parse_html(html)
       /\ store_calls' = IF auto_store /\ parse_html(html) # <<>>
                         THEN store_calls + 1 ELSE store_calls
       /\ m_matches' = [m_matches EXCEPT ![k] = parse_html(html)]
  /\ m_loads' = [m_loads EXCEPT ![k] = @ + 1]
  /\ m_pc' = [m_pc EXCEPT ![k] = IF m_callback[k] THEN "initial_cb" ELSE "top"]
  /\ UNCHANGED <<storeSide, otherVars, is_monitoring, stop_event, auto_store, starts,
                 m_callback, m_max, m_start, m_interval, m_iters>>

\* the initial get_matches raises before any content arrives: the driver
\* does not start, or get_page fails
InitialLoadFetchFails(k) ==
  /\ m_pc[k] = "initial"
  /\ chrome' \in (IF chrome = "none" THEN {"none", "alive", "dead"}
                  ELSE {"alive", "dead"})
  /\ m_loads' = [m_loads EXCEPT ![k] = @ + 1]
  /\ m_pc' = [m_pc EXCEPT ![k] = AfterInitialFailure]
  /\ UNCHANGED <<now, storeSide, otherVars, is_monitoring, stop_event, last_matches,
                 last_html, last_full_refresh, auto_store, starts, store_calls,
                 m_callback, m_max, m_start, m_matches, m_interval, m_iters>>

\* the initial get_matches raises in parse_html: last_html and
\* last_full_refresh are already set
InitialLoadParseFails(k) ==
  /\ m_pc[k] = "initial"
  /\ \E html \in Pages, d \in LoadTimes :
       /\ ParseFails(html)
       /\ now' = now + d
       /\ chrome' = "alive"
       /\ last_html' = html
       /\ last_full_refresh' = now + d
  /\ m_loads' = [m_loads EXCEPT ![k] = @ + 1]
  /\ m_pc' = [m_pc EXCEPT ![k] = AfterInitialFailure]
  /\ UNCHANGED <<storeSide, otherVars, is_monitoring, stop_event, last_matches, auto_store,
                 starts, store_calls, m_callback, m_max, m_start, m_matches,
                 m_interval, m_iters>>

\* lines 130-131: callback(matches) on the initial observation returns
InitialCallbackOk(k) ==
  /\ m_pc[k] = "initial_cb"
  /\ m_pc' = [m_pc EXCEPT ![k] = "top"]
  /\ UNCHANGED <<now, storeSide, otherVars, scraperVars, m_callback, m_max, m_start,
                 m_matches, m_interval, m_iters, m_loads>>

\* lines 130-134: callback(matches) on the initial observation raises
InitialCallbackRaises(k) ==
  /\ m_pc[k] = "initial_cb"
  /\ m_pc' = [m_pc EXCEPT ![k] = "cb_failed"]
  /\ UNCHANGED <<now, storeSide, otherVars, scraperVars, m_callback, m_max, m_start,
                 m_matches, m_interval, m_iters, m_loads>>

RECURSIVE SumOver(_, _)
SumOver(f, S) ==
  IF S = {} THEN 0
  ELSE LET x == CHOOSE y \in S : TRUE IN f[x] + SumOver(f, S \ {x})

Iterations == SumOver(m_iters, DOMAIN m_iters)

\* line 136: the while condition finds the stop event set
LoopTopStop(k) ==
  /\ m_pc[k] = "top"
  /\ stop_event
  /\ m_pc' = [m_pc EXCEPT ![k] = "exit"]
  /\ UNCHANGED <<now, storeSide, otherVars, scraperVars, m_callback, m_max, m_start,
                 m_matches, m_interval, m_iters, m_loads>>

\* line 136: the while condition holds, the loop body is entered
LoopTopGo(k) ==
  /\ m_pc[k] = "top"
  /\ ~stop_event
  /\ Iterations < MaxIter
  /\ m_iters' = [m_iters EXCEPT ![k] = @ + 1]
  /\ m_pc' = [m_pc EXCEPT ![k] = "iter"]
  /\ UNCHANGED <<now, storeSide, otherVars, scraperVars, m_callback, m_max, m_start,
                 m_matches, m_interval, m_loads>>

\* line 139: max_duration and (datetime.now() - start_time).seconds > max_duration
DurationExceeded(k) ==
  m_max[k] # 0 /\ TimedeltaSeconds(now, m_start[k]) > m_max[k]

\* lines 139-140: break
IterBreak(k) ==
  /\ m_pc[k] = "iter"
  /\ DurationExceeded(k)
  /\ m_pc' = [m_pc EXCEPT ![k] = "exit"]
  /\ UNCHANGED <<now, storeSide, otherVars, scraperVars, m_callback, m_max, m_start,
                 m_matches, m_interval, m_iters, m_loads>>

\* lines 143-149: the interval and the refresh strategy are chosen
IterChoose(k) ==
  /\ m_pc[k] = "iter"
  /\ ~DurationExceeded(k)
  /\ m_interval' = [m_interval EXCEPT ![k] = _get_refresh_interval]
  /\ m_pc' = [m_pc EXCEPT ![k] = IF _needs_full_refresh THEN "full" ELSE "smart"]
  /\ UNCHANGED <<now, storeSide, otherVars, scraperVars, m_callback, m_max, m_start,
                 m_matches, m_iters, m_loads>>

\* thread k is in _do_full_refresh, called by the loop body (line 147) or
\* by the except handler of _do_smart_refresh (line 242)
InFullRefresh(k) == m_pc[k] \in {"full", "fallback"}

\* _do_full_refresh succeeds (the browser is restarted if it is not alive)
FullRefreshOk(k) ==
  /\ InFullRefresh(k)
  /\ \E html \in Pages, d \in LoadTimes :
       /\ ~ParseFails(html)
       /\ now' = now + d
       /\ last_html' = html
       /\ last_full_refresh' = now + d
       /\ m_matches' = [m_matches EXCEPT ![k] = parse_html(html)]
  /\ chrome' = "alive"
  /\ m_loads' = [m_loads EXCEPT ![k] = @ + 1]
  /\ m_pc' = [m_pc EXCEPT ![k] = "update"]
  /\ UNCHANGED <<storeSide, otherVars, is_monitoring, stop_event, last_matches, auto_store,
                 starts, store_calls, m_callback, m_max, m_start, m_interval,
                 m_iters>>

\* _do_full_refresh raises before any content arrives (restart_driver or
\* get_page fails)
FullRefreshFetchFails(k) ==
  /\ InFullRefresh(k)
  /\ chrome' \in {"alive", "dead"}
  /\ m_loads' = [m_loads EXCEPT ![k] = @ + 1]
  /\ m_pc' = [m_pc EXCEPT ![k] = "except"]
  /\ UNCHANGED <<now, storeSide, otherVars, is_monitoring, stop_event, last_matches,
                 last_html, last_full_refresh, auto_store, starts, store_calls,
                 m_callback, m_max, m_start, m_matches, m_interval, m_iters>>

\* _do_full_refresh raises in parse_html
FullRefreshParseFails(k) ==
  /\ InFullRefresh(k)
  /\ \E html \in Pages, d \in LoadTimes :
       /\ ParseFails(html)
       /\ now' = now + d
       /\ last_html' = html
       /\ last_full_refresh' = now + d
  /\ chrome' = "alive"
  /\ m_loads' = [m_loads EXCEPT ![k] = @ + 1]
  /\ m_pc' = [m_pc EXCEPT ![k] = "except"]
  /\ UNCHANGED <<storeSide, otherVars, is_monitoring, stop_event, last_matches, auto_store,
                 starts, store_calls, m_callback, m_max, m_start, m_matches,
                 m_interval, m_iters>>

\* _do_smart_refresh: the reloaded content differs and is parsed
SmartRefreshChanged(k) ==
  /\ m_pc[k] = "smart"
  /\ chrome = "alive"
  /\ \E html \in Pages :
       /\ html # last_html
       /\ ~ParseFails(html)
       /\ last_html' = html
       /\ m_matches' = [m_matches EXCEPT ![k] = parse_html(html)]
  /\ now' = now + SmartPause
  /\ m_pc' = [m_pc EXCEPT ![k] = "update"]
  /\ UNCHANGED <<storeSide, otherVars, is_monitoring, stop_event, last_matches,
                 last_full_refresh, auto_store, chrome, starts, store_calls,
                 m_callback, m_max, m_start, m_interval, m_iters, m_loads>>

\* a slip: unchanged content is extracted again and the result returned
SmartRefreshReparses(k) ==
  /\ m_pc[k] = "smart"
  /\ chrome = "alive"
  /\ last_html \in Pages
  /\ ~ParseFails(last_html)
  /\ now' = now + SmartPause
  /\ m_matches' = [m_matches EXCEPT ![k] = parse_html(last_html)]
  /\ m_pc' = [m_pc EXCEPT ![k] = "update"]
  /\ UNCHANGED <<storeSide, otherVars, scraperVars, m_callback, m_max, m_start,
                 m_interval, m_iters, m_loads>>

\* _do_smart_refresh: the reloaded content is the stored one; last_matches
\* is returned
SmartRefreshUnchanged(k) ==
  /\ m_pc[k] = "smart"
  /\ chrome = "alive"
  /\ last_html \in Pages
  /\ now' = now + SmartPause
  /\ m_matches' = [m_matches EXCEPT ![k] = last_matches]
  /\ m_pc' = [m_pc EXCEPT ![k] = "update"]
  /\ UNCHANGED <<storeSide, otherVars, scraperVars, m_callback, m_max, m_start,
                 m_interval, m_iters, m_loads>>

\* a slip: the failure of the in-place reload is not handled in
\* _do_smart_refresh and reaches the handler of the loop
SmartRefreshScriptRaises(k) ==
  /\ m_pc[k] = "smart"
  /\ chrome' \in {chrome, "dead"} \ {"none"}
  /\ m_pc' = [m_pc EXCEPT ![k] = "except"]
  /\ UNCHANGED <<now, storeSide, otherVars, is_monitoring, stop_event, last_matches,
                 last_html, last_full_refresh, auto_store, starts, store_calls,
                 m_callback, m_max, m_start, m_matches, m_interval, m_iters,
                 m_loads>>

\* _do_smart_refresh: execute_script or page_source raises; the handler
\* falls back to _do_full_refresh
SmartRefreshScriptFails(k) ==
  /\ m_pc[k] = "smart"
  /\ chrome' \in {chrome, "dead"} \ {"none"}
  /\ m_pc' = [m_pc EXCEPT ![k] = "fallback"]
  /\ UNCHANGED <<now, storeSide, otherVars, is_monitoring, stop_event, last_matches,
                 last_html, last_full_refresh, auto_store, starts, store_calls,
                 m_callback, m_max, m_start, m_matches, m_interval, m_iters,
                 m_loads>>

\* _do_smart_refresh: the changed content does not parse; last_html is
\* already set, the handler falls back to _do_full_refresh
SmartRefreshParseFails(k) ==
  /\ m_pc[k] = "smart"
  /\ chrome = "alive"
  /\ \E html \in Pages :
       /\ html # last_html
       /\ ParseFails(html)
       /\ last_html' = html
  /\ now' = now + SmartPause
  /\ m_pc' = [m_pc EXCEPT ![k] = "fallback"]
  /\ UNCHANGED <<storeSide, otherVars, is_monitoring, stop_event, last_matches,
                 last_full_refresh, auto_store, chrome, starts, store_calls,
                 m_callback, m_max, m_start, m_matches, m_interval, m_iters,
                 m_loads>>

\* lines 152-155 without an exception: last_matches is replaced by a
\* non-empty result and the callback, if any, returns
UpdateOk(k) ==
  /\ m_pc[k] = "update"
  /\ last_matches' = IF m_matches[k] # <<>> THEN m_matches[k] ELSE last_matches
  /\ m_pc' = [m_pc EXCEPT ![k] = "wait"]
  /\ UNCHANGED <<now, storeSide, otherVars, is_monitoring, stop_event, last_html,
                 last_full_refresh, auto_store, chrome, starts, store_calls,
                 m_callback, m_max, m_start, m_matches, m_interval, m_iters,
                 m_loads>>

\* lines 152-155: the callback raises
UpdateCallbackRaises(k) ==
  /\ m_pc[k] = "update"
  /\ m_matches[k] # <<>>
  /\ m_callback[k]
  /\ last_matches' = m_matches[k]
  /\ m_pc' = [m_pc EXCEPT ![k] = "except"]
  /\ UNCHANGED <<now, storeSide, otherVars, is_monitoring, stop_event, last_html,
                 last_full_refresh, auto_store, chrome, starts, store_calls,
                 m_callback, m_max, m_start, m_matches, m_interval, m_iters,
                 m_loads>>

\* a slip: the wait is a plain sleep that runs its full interval
SleepFor(k, timeout, next) ==
  /\ now' = now + timeout
  /\ m_pc' = [m_pc EXCEPT ![k] = next]
  /\ UNCHANGED <<storeSide, otherVars, scraperVars, m_callback, m_max, m_start,
                 m_matches, m_interval, m_iters, m_loads>>

\* Event.wait(timeout): returns at once when the event is set, else after
\* the timeout (a stop_monitoring during the wait ends it)
WaitFor(k, timeout, next) ==
  /\ now' = IF stop_event THEN now ELSE now + timeout
  /\ m_pc' = [m_pc EXCEPT ![k] = next]
  /\ UNCHANGED <<storeSide, otherVars, scraperVars, m_callback, m_max, m_start,
                 m_matches, m_interval, m_iters, m_loads>>

\* line 158: self.stop_event.wait(refresh_interval)
Wait(k) ==
  /\ m_pc[k] = "wait"
  /\ WaitFor(k, m_interval[k], "top")

\* a slip: the handler of a failed recovery lets the exception out of the loop
RecoveryFailureRaises == "exit"

\* lines 168-171: "Recovery failed, continuing..." and the longer wait
AfterRecoveryFailure == "error_wait"

\* lines 160-167: the error is logged, time.sleep(5), the recovery
\* _do_full_refresh succeeds and the callback, if called, returns
RecoverOk(k) ==
  /\ m_pc[k] = "except"
  /\ \E html \in Pages, d \in LoadTimes :
       /\ ~ParseFails(html)
       /\ now' = now + RecoveryPause + d
       /\ last_html' = html
       /\ last_full_refresh' = now + RecoveryPause + d
       /\ m_matches' = [m_matches EXCEPT ![k] = parse_html(html)]
  /\ chrome' = "alive"
  /\ m_loads' = [m_loads EXCEPT ![k] = @ + 1]
  /\ m_pc' = [m_pc EXCEPT ![k] = "error_wait"]
  /\ UNCHANGED <<storeSide, otherVars, is_monitoring, stop_event, last_matches, auto_store,
                 starts, store_calls, m_callback, m_max, m_start, m_interval,
                 m_iters>>

\* lines 163-169: the recovery _do_full_refresh raises before any content
\* arrives
RecoverFetchFails(k) ==
  /\ m_pc[k] = "except"
  /\ now' = now + RecoveryPause
  /\ chrome' \in {"alive", "dead"}
  /\ m_loads' = [m_loads EXCEPT ![k] = @ + 1]
  /\ m_pc' = [m_pc EXCEPT ![k] = AfterRecoveryFailure]
  /\ UNCHANGED <<storeSide, otherVars, is_monitoring, stop_event, last_matches, last_html,
                 last_full_refresh, auto_store, starts, store_calls, m_callback,
                 m_max, m_start, m_matches, m_interval, m_iters>>

\* lines 163-169: the recovery _do_full_refresh raises in parse_html, or
\* the callback raises on its result
RecoverLateFails(k) ==
  /\ m_pc[k] = "except"
  /\ \E html \in Pages, d \in LoadTimes :
       /\ ParseFails(html) \/ (m_callback[k] /\ parse_html(html) # <<>>)
       /\ now' = now + RecoveryPause + d
       /\ last_html' = html
       /\ last_full_refresh' = now + RecoveryPause + d
       /\ m_matches' = [m_matches EXCEPT ![k] =
                          IF ParseFails(html) THEN @ ELSE parse_html(html)]
  /\ chrome' = "alive"
  /\ m_loads' = [m_loads EXCEPT ![k] = @ + 1]
  /\ m_pc' = [m_pc EXCEPT ![k] = AfterRecoveryFailure]
  /\ UNCHANGED <<storeSide, otherVars, is_monitoring, stop_event, last_matches, auto_store,
                 starts, store_calls, m_callback, m_max, m_start, m_interval,
                 m_iters>>

\* line 171: self.stop_event.wait(30)
WaitAfterError(k) ==
  /\ m_pc[k] = "error_wait"
  /\ WaitFor(k, ErrorWait, "top")

\* monitor(): _monitor_loop has returned; finally: is_monitoring = False
MonitorExit(k) ==
  /\ m_pc[k] \in {"exit", "init_failed", "cb_failed"}
  /\ is_monitoring' = FALSE
  /\ m_pc' = [m_pc EXCEPT ![k] = "dead"]
  /\ UNCHANGED <<now, storeSide, otherVars, stop_event, last_matches, last_html,
                 last_full_refresh, auto_store, chrome, starts, store_calls,
                 m_callback, m_max, m_start, m_matches, m_interval, m_iters,
                 m_loads>>

Monitor(k) ==
  \/ MonitorBegin(k)
  \/ InitialLoadOk(k)
  \/ InitialLoadFetchFails(k)
  \/ InitialLoadParseFails(k)
  \/ InitialCallbackOk(k)
  \/ InitialCallbackRaises(k)
  \/ LoopTopStop(k)
  \/ LoopTopGo(k)
  \/ IterBreak(k)
  \/ IterChoose(k)
  \/ FullRefreshOk(k)
  \/ FullRefreshFetchFails(k)
  \/ FullRefreshParseFails(k)
  \/ SmartRefreshChanged(k)
  \/ SmartRefreshUnchanged(k)
  \/ SmartRefreshScriptFails(k)
  \/ SmartRefreshParseFails(k)
  \/ UpdateOk(k)
  \/ UpdateCallbackRaises(k)
  \/ Wait(k)
  \/ RecoverOk(k)
  \/ RecoverFetchFails(k)
  \/ RecoverLateFails(k)
  \/ WaitAfterError(k)
  \/ MonitorExit(k)

(***************************************************************************)
(* SpecSched: one scheduler, started and stopped by its owner.             *)
(***************************************************************************)
InitSchedOnly ==
  /\ now = 0
  /\ store = [id \in Ids |-> None]
  /\ InitCalls
  /\ InitSweep /\ InitOther
  /\ InitMonitors
  /\ auto_store \in BOOLEAN

NextSched ==
  \/ \E k \in MonThreads : StartMonitoring(k)
  \/ StopMonitoring
  \/ ChromeDies
  \/ \E k \in MonThreads : Monitor(k)

SpecSched == InitSchedOnly /\ [][NextSched]_vars

\* a started thread that can take a step is eventually scheduled
SpecSchedFair == SpecSched /\ \A k \in MonThreads : WF_vars(Monitor(k))

(***************************************************************************)
(* SpecRestart: one scheduler whose owner calls stop_monitoring and        *)
(* start_monitoring again; the first thread is taken up in the wait of     *)
(* line 158 that follows its initial load.                                  *)
(***************************************************************************)
\* the threads the two start_monitoring calls create
RestartThreads == {"k1", "k2"}

InitRestart ==
  /\ now = 1
  /\ store = [id \in Ids |-> None]
  /\ InitCalls
  /\ InitSweep /\ InitOther
  /\ is_monitoring = TRUE
  /\ stop_event = FALSE
  /\ last_html = "pLive"
  /\ last_matches = parse_html("pLive")
  /\ last_full_refresh = 1
  /\ chrome = "alive"
  /\ starts = 1
  /\ auto_store = FALSE
  /\ store_calls = 0
  /\ m_pc = [k \in RestartThreads |-> IF k = "k1" THEN "wait" ELSE "none"]
  /\ m_callback = [k \in RestartThreads |-> FALSE]
  /\ m_max = [k \in RestartThreads |-> 0]
  /\ m_start = [k \in RestartThreads |-> 0]
  /\ m_matches = [k \in RestartThreads |->
                    IF k = "k1" THEN parse_html("pLive") ELSE <<>>]
  /\ m_interval = [k \in RestartThreads |->
                     IF k = "k1" THEN live_refresh_interval ELSE 0]
  /\ m_iters = [k \in RestartThreads |-> 0]
  /\ m_loads = [k \in RestartThreads |-> IF k = "k1" THEN 1 ELSE 0]

\* the steps of a monitoring thread whose refreshes succeed
MonitorNoError(k) ==
  \/ MonitorBegin(k)
  \/ InitialLoadOk(k)
  \/ InitialCallbackOk(k)
  \/ LoopTopStop(k)
  \/ LoopTopGo(k)
  \/ IterBreak(k)
  \/ IterChoose(k)
  \/ FullRefreshOk(k)
  \/ SmartRefreshChanged(k)
  \/ SmartRefreshUnchanged(k)
  \/ UpdateOk(k)
  \/ Wait(k)
  \/ MonitorExit(k)

NextRestart ==
  \/ StartMonitoring("k2")
  \/ StopMonitoring
  \/ ChromeDies
  \/ \E k \in RestartThreads : MonitorNoError(k)

SpecRestart == InitRestart /\ [][NextRestart]_vars

(***************************************************************************)
(* SpecLongRun: a monitoring thread as the orchestrator starts it          *)
(* (max_duration = MAX_RUNTIME_HOURS * 3600), taken up at the loop         *)
(* condition about a day after its start.                                  *)
(***************************************************************************)
MAX_RUNTIME_HOURS == 24
SecondsPerHour == 3600

\* the runs taken up: seconds since start_time, and max_duration.  Beside
\* the orchestrator's value, a max_duration that the previous evaluation of
\* the loop body, one refresh and one live interval earlier, had not passed.
LongRuns ==
  {<<86390, MAX_RUNTIME_HOURS * SecondsPerHour>>,
   <<86401, MAX_RUNTIME_HOURS * SecondsPerHour>>,
   <<86420, MAX_RUNTIME_HOURS * SecondsPerHour>>,
   <<86390, 86380>>}

\* the thread has run since instant 0; its previous iteration fully
\* refreshed a page with a live entity and waited the live interval
InitLongRun ==
  /\ \E r \in LongRuns :
       /\ now = r[1]
       /\ m_max = [k \in MonThreads |-> r[2]]
  /\ store = [id \in Ids |-> None]
  /\ InitCalls
  /\ InitSweep /\ InitOther
  /\ is_monitoring = TRUE
  /\ stop_event = FALSE
  /\ last_html = "pLive"
  /\ last_matches = parse_html("pLive")
  /\ last_full_refresh = now - live_refresh_interval
  /\ auto_store \in BOOLEAN
  /\ chrome = "alive"
  /\ starts = 1
  /\ store_calls = 0
  /\ m_pc = [k \in MonThreads |-> "top"]
  /\ m_callback \in [MonThreads -> BOOLEAN]
  /\ m_start = [k \in MonThreads |-> 0]
  /\ m_matches = [k \in MonThreads |-> parse_html("pLive")]
  /\ m_interval = [k \in MonThreads |-> live_refresh_interval]
  /\ m_iters = [k \in MonThreads |-> 0]
  /\ m_loads = [k \in MonThreads |-> 0]

\* the steps of monitor() from the loop condition on
MonitorLoop(k) ==
  \/ LoopTopStop(k)
  \/ LoopTopGo(k)
  \/ IterBreak(k)
  \/ IterChoose(k)
  \/ FullRefreshOk(k)
  \/ FullRefreshFetchFails(k)
  \/ FullRefreshParseFails(k)
  \/ SmartRefreshChanged(k)
  \/ SmartRefreshUnchanged(k)
  \/ SmartRefreshScriptFails(k)
  \/ SmartRefreshParseFails(k)
  \/ UpdateOk(k)
  \/ UpdateCallbackRaises(k)
  \/ Wait(k)
  \/ RecoverOk(k)
  \/ RecoverFetchFails(k)
  \/ RecoverLateFails(k)
  \/ WaitAfterError(k)
  \/ MonitorExit(k)

NextLongRun ==
  \/ StopMonitoring
  \/ ChromeDies
  \/ \E k \in MonThreads : MonitorLoop(k)

SpecLongRun == InitLongRun /\ [][NextLongRun]_vars

(***************************************************************************)
(* SpecOutage: a monitoring thread with no maximum duration, taken up at   *)
(* the loop condition during an outage of the site: the initial load at    *)
(* instant 1 was the last page fetched, every refresh and every recovery   *)
(* since has failed to fetch, each such iteration taking RecoveryPause +   *)
(* ErrorWait seconds.                                                      *)
(***************************************************************************)
\* failed iterations behind the thread
OutageIterations == {8, 9, 2469, 2478}

InitOutage ==
  /\ \E n \in OutageIterations : now = 1 + n * (RecoveryPause + ErrorWait)
  /\ store = [id \in Ids |-> None]
  /\ InitCalls
  /\ InitSweep /\ InitOther
  /\ is_monitoring = TRUE
  /\ stop_event = FALSE
  /\ last_html \in {"pLive", "pUpcoming"}
  /\ last_matches = parse_html(last_html)
  /\ last_full_refresh = 1
  /\ auto_store \in BOOLEAN
  /\ chrome \in {"alive", "dead"}
  /\ starts = 1
  /\ store_calls = IF auto_store THEN 1 ELSE 0
  /\ m_pc = [k \in MonThreads |-> "top"]
  /\ m_callback \in [MonThreads -> BOOLEAN]
  /\ m_max = [k \in MonThreads |-> 0]
  /\ m_start = [k \in MonThreads |-> 0]
  /\ m_matches = [k \in MonThreads |-> last_matches]
  /\ m_interval = [k \in MonThreads |-> _get_refresh_interval]
  /\ m_iters = [k \in MonThreads |-> 0]
  /\ m_loads = [k \in MonThreads |-> 0]

\* the steps of monitor() from the loop condition on; without a maximum
\* duration the break of line 140 is never taken
OutageLoop(k) ==
  \/ LoopTopStop(k)
  \/ LoopTopGo(k)
  \/ IterChoose(k)
  \/ FullRefreshOk(k)
  \/ FullRefreshFetchFails(k)
  \/ FullRefreshParseFails(k)
  \/ SmartRefreshChanged(k)
  \/ SmartRefreshUnchanged(k)
  \/ SmartRefreshScriptFails(k)
  \/ SmartRefreshParseFails(k)
  \/ UpdateOk(k)
  \/ UpdateCallbackRaises(k)
  \/ Wait(k)
  \/ RecoverOk(k)
  \/ RecoverFetchFails(k)
  \/ RecoverLateFails(k)
  \/ WaitAfterError(k)
  \/ MonitorExit(k)

NextOutage ==
  \/ StopMonitoring
  \/ ChromeDies
  \/ \E k \in MonThreads : OutageLoop(k)

SpecOutage == InitOutage /\ [][NextOutage]_vars

(***************************************************************************)
(* Orchestrator (main.py): one scraper and one monitoring thread per       *)
(* league, a supervising loop, and the shutdown paths.  A monitoring       *)
(* thread is seen from outside: started, alive, ended.                     *)
(***************************************************************************)
RunHours == 1               \* MAX_RUNTIME_HOURS set for the run
PollPause == 30             \* time.sleep(30) of the supervising loop
JoinTimeout == 10           \* thread.join(timeout=10)

orchRest == <<store, callVars, sweepVars, schedVars, parseVars>>
cleanupVars == <<o_last_cleanup, sweeps>>

\* main() line 99: start_time = datetime.now(), no thread started yet
InitOrchOnly ==
  /\ now = 0
  /\ store = [id \in Ids |-> None]
  /\ InitCalls
  /\ InitSweep
  /\ InitSched
  /\ InitParse
  /\ o_pc = "start"
  /\ o_i = 1
  /\ o_start = 0
  /\ o_stop = [l \in LeagueIds |-> FALSE]
  /\ o_thread = [l \in LeagueIds |-> "none"]
  /\ o_joined = [l \in LeagueIds |-> FALSE]
  /\ o_closed = [l \in LeagueIds |-> FALSE]
  /\ o_ret = NoneStr
  /\ o_last_cleanup = 0
  /\ o_passes = 0

\* lines 126-144: scraper.start_monitoring for the next league
OrchStartThread ==
  /\ o_pc = "start"
  /\ o_thread' = [o_thread EXCEPT ![o_i] = "alive"]
  /\ o_i' = IF o_i = Len(Leagues) THEN 0 ELSE o_i + 1
  /\ o_pc' = IF o_i = Len(Leagues) THEN "loop" ELSE "start"
  /\ UNCHANGED <<now, o_start, o_stop, o_joined, o_closed, o_ret, orchRest, o_last_cleanup, o_passes>>

\* lines 140-143: starting the thread raises
OrchStartRaises ==
  /\ o_pc = "start"
  /\ o_pc' = "err_stop"
  /\ UNCHANGED <<now, o_i, o_start, o_stop, o_thread, o_joined, o_closed,
                 o_ret, orchRest, o_last_cleanup, o_passes>>

\* a monitoring thread ends: stop observed, max duration, failed start
OrchThreadEnds(l) ==
  /\ o_thread[l] = "alive"
  /\ o_thread' = [o_thread EXCEPT ![l] = "dead"]
  /\ UNCHANGED <<now, o_pc, o_i, o_start, o_stop, o_joined, o_closed, o_ret,
                 orchRest, o_last_cleanup, o_passes>>

CLEANUP_INTERVAL_HOURS == 6

\* line 159: cosmos_client and
\* (datetime.now() - last_cleanup).seconds > CLEANUP_INTERVAL_HOURS * 3600
CleanupDue ==
  /\ auto_store
  /\ TimedeltaSeconds(now, o_last_cleanup) > CLEANUP_INTERVAL_HOURS * SecondsPerHour

\* line 168-169: runtime_hours = (now - start_time).seconds / 3600;
\* runtime_hours >= MAX_RUNTIME_HOURS
RuntimeReachedFor(hours) ==
  TimedeltaSeconds(now, o_start) >= hours * SecondsPerHour

RuntimeReached == RuntimeReachedFor(RunHours)

\* lines 167-174: the end of a pass: break at the maximum runtime, else
\* time.sleep(30)
PassEnd(hours) ==
  /\ IF RuntimeReachedFor(hours)
     THEN o_pc' = "stop_all" /\ now' = now
     ELSE o_pc' = "loop" /\ now' = now + PollPause
  /\ o_passes' = o_passes + 1

\* lines 149-174: one pass of the supervising loop in which the periodic
\* cleanup (lines 159-165) is not due
PassNoCleanup(hours) ==
  /\ o_pc = "loop"
  /\ ~CleanupDue
  /\ PassEnd(hours)
  /\ UNCHANGED <<o_i, o_start, o_stop, o_thread, o_joined, o_closed, o_ret,
                 o_last_cleanup, orchRest>>

\* lines 159-163: the cleanup is due, delete_old_matches(days=7) returns and
\* last_cleanup = datetime.now(); the records removed are not followed here
PassCleanupOk(hours) ==
  /\ o_pc = "loop"
  /\ CleanupDue
  /\ sweeps' = sweeps + 1
  /\ o_last_cleanup' = now
  /\ PassEnd(hours)
  /\ UNCHANGED <<o_i, o_start, o_stop, o_thread, o_joined, o_closed, o_ret,
                 store, callVars, d_pc, d_cutoff, d_items, d_count, d_log,
                 schedVars, parseVars>>

\* lines 159-165: the cleanup is due and delete_old_matches raises (its
\* query fails): "Cleanup failed" is logged, last_cleanup stays
PassCleanupRaises(hours) ==
  /\ o_pc = "loop"
  /\ CleanupDue
  /\ sweeps' = sweeps + 1
  /\ PassEnd(hours)
  /\ UNCHANGED <<o_i, o_start, o_stop, o_thread, o_joined, o_closed, o_ret,
                 o_last_cleanup, store, callVars, d_pc, d_cutoff, d_items,
                 d_count, d_log, schedVars, parseVars>>

\* a pass of the run with MAX_RUNTIME_HOURS = RunHours, too short for a
\* cleanup to fall due
OrchLoop == PassNoCleanup(RunHours)

\* lines 177-179: stop_monitoring on every scraper
OrchStopAll ==
  /\ o_pc = "stop_all"
  /\ o_stop' = [l \in LeagueIds |-> TRUE]
  /\ o_pc' = "join"
  /\ o_i' = 1
  /\ UNCHANGED <<now, o_start, o_thread, o_joined, o_closed, o_ret, orchRest, o_last_cleanup, o_passes>>

\* lines 182-185: if thread.is_alive(): thread.join(timeout=10)
OrchJoin ==
  /\ o_pc = "join"
  /\ IF o_thread[o_i] = "alive"
     THEN /\ o_joined' = [o_joined EXCEPT ![o_i] = TRUE]
          /\ \/ /\ o_thread' = [o_thread EXCEPT ![o_i] = "dead"]
                /\ now' \in {now, now + JoinTimeout}
             \/ /\ o_thread' = o_thread
                /\ now' = now + JoinTimeout
     ELSE UNCHANGED <<now, o_thread, o_joined>>
  /\ o_i' = IF o_i = Len(Leagues) THEN 0 ELSE o_i + 1
  /\ o_pc' = IF o_i = Len(Leagues) THEN "stats" ELSE "join"
  /\ UNCHANGED <<o_start, o_stop, o_closed, o_ret, orchRest, o_last_cleanup, o_passes>>

\* lines 188-190: the final statistics are read and logged
OrchStatsOk ==
  /\ o_pc = "stats"
  /\ o_pc' = "close"
  /\ UNCHANGED <<now, o_i, o_start, o_stop, o_thread, o_joined, o_closed,
                 o_ret, orchRest, o_last_cleanup, o_passes>>

\* lines 188-190: get_container_stats raises something else than
\* CosmosHttpResponseError
OrchStatsRaises ==
  /\ o_pc = "stats"
  /\ o_pc' = "err_stop"
  /\ UNCHANGED <<now, o_i, o_start, o_stop, o_thread, o_joined, o_closed,
                 o_ret, orchRest, o_last_cleanup, o_passes>>

\* MultiLeagueScraper.close_all: scraper.close() stops monitoring and quits
\* the driver of every scraper
CloseAll(code) ==
  /\ o_stop' = [l \in LeagueIds |-> TRUE]
  /\ o_closed' = [l \in LeagueIds |-> TRUE]
  /\ o_pc' = "returned"
  /\ o_ret' = code
  /\ UNCHANGED <<now, o_i, o_start, o_thread, o_joined, orchRest, o_last_cleanup, o_passes>>

\* lines 192-193: close_all(); return 0
OrchClose ==
  /\ o_pc = "close"
  /\ CloseAll("0")

\* KeyboardInterrupt raised inside the try block of lines 96-193
OrchInterrupt ==
  /\ o_pc \in {"start", "loop", "stop_all", "join", "stats", "close"}
  /\ o_pc' = "int_stop"
  /\ UNCHANGED <<now, o_i, o_start, o_stop, o_thread, o_joined, o_closed,
                 o_ret, orchRest, o_last_cleanup, o_passes>>

\* the handlers' for loop: stop_monitoring on every scraper
HandlerStopAll(next) ==
  /\ o_stop' = [l \in LeagueIds |-> TRUE]
  /\ o_pc' = next
  /\ UNCHANGED <<now, o_i, o_start, o_thread, o_joined, o_closed, o_ret,
                 orchRest, o_last_cleanup, o_passes>>

\* lines 195-199
OrchInterruptStop ==
  /\ o_pc = "int_stop"
  /\ HandlerStopAll("int_close")

\* lines 200-201: close_all(); return 0
OrchInterruptClose ==
  /\ o_pc = "int_close"
  /\ CloseAll("0")

\* lines 203-207
OrchErrorStop ==
  /\ o_pc = "err_stop"
  /\ HandlerStopAll("err_close")

\* lines 208-209: close_all(); return 1
OrchErrorClose ==
  /\ o_pc = "err_close"
  /\ CloseAll("1")

NextOrch ==
  \/ OrchStartThread
  \/ OrchStartRaises
  \/ \E l \in LeagueIds : OrchThreadEnds(l)
  \/ OrchLoop
  \/ OrchStopAll
  \/ OrchJoin
  \/ OrchStatsOk
  \/ OrchStatsRaises
  \/ OrchClose
  \/ OrchInterrupt
  \/ OrchInterruptStop
  \/ OrchInterruptClose
  \/ OrchErrorStop
  \/ OrchErrorClose

SpecOrch == InitOrchOnly /\ [][NextOrch]_vars

(***************************************************************************)
(* SpecMaint: the supervising loop of a run with the default settings      *)
(* (MAX_RUNTIME_HOURS = 24, CLEANUP_INTERVAL_HOURS = 6), taken up at a     *)
(* pass with every thread alive and no cleanup done since the start: near  *)
(* the sixth hour, or near the twenty-fourth after every sweep since the   *)
(* sixth hour has failed.                                                  *)
(***************************************************************************)
MaxPasses == 5       \* passes of the supervising loop per behaviour

\* seconds since start_time of the pass taken up (a multiple of PollPause)
MaintStarts == {21570, 86340}

InitMaint ==
  /\ now \in MaintStarts
  /\ store = [id \in Ids |-> None]
  /\ InitCalls
  /\ InitSweep
  /\ InitMonitors
  /\ auto_store \in BOOLEAN
  /\ InitParse
  /\ o_pc = "loop"
  /\ o_i = 0
  /\ o_start = 0
  /\ o_stop = [l \in LeagueIds |-> FALSE]
  /\ o_thread = [l \in LeagueIds |-> "alive"]
  /\ o_joined = [l \in LeagueIds |-> FALSE]
  /\ o_closed = [l \in LeagueIds |-> FALSE]
  /\ o_ret = NoneStr
  /\ o_last_cleanup = 0
  /\ o_passes = 0

MaintPass == o_passes < MaxPasses /\ PassNoCleanup(MAX_RUNTIME_HOURS)
MaintCleanupOk == o_passes < MaxPasses /\ PassCleanupOk(MAX_RUNTIME_HOURS)
MaintCleanupRaises == o_passes < MaxPasses /\ PassCleanupRaises(MAX_RUNTIME_HOURS)

NextMaint ==
  \/ MaintPass
  \/ MaintCleanupOk
  \/ MaintCleanupRaises
  \/ \E l \in LeagueIds : OrchThreadEnds(l)

SpecMaint == InitMaint /\ [][NextMaint]_vars

(***************************************************************************)
(* Extractor (parser.py).  A container is described by what the           *)
(* selectors of the extractor find in it; a text is a string, a tooltip    *)
(* id the sequence of its parts between dashes.                            *)
(***************************************************************************)
MaxContainers == 2     \* containers in one markup

\* lines 114: the attributes tried, in order
IdAttrs == <<"data-match-id", "data-event-id", "data-game-id", "id">>
AttrNames == {IdAttrs[i] : i \in 1..Len(IdAttrs)}

\* str.isdigit and int() on the texts used
DigitTexts == {"0", "1", "3", "4", "6", "9", "11", "619"}
isdigit(x) == x \in DigitTexts
IntOf(x) ==
  CASE x = "0" -> 0 [] x = "1" -> 1 [] x = "3" -> 3 [] x = "4" -> 4 [] x = "6" -> 6
    [] x = "9" -> 9 [] x = "11" -> 11 [] x = "619" -> 619

\* the .game-time-status element: absent, or its text, described by the
\* keywords it contains (case-insensitively) and by its first run of
\* digits (NoNumber when it has none)
NoNumber == 0 - 1
NoStatusText == [present |-> FALSE, set |-> FALSE, game |-> FALSE, num |-> NoNumber]
StatusText(set, game, num) == [present |-> TRUE, set |-> set, game |-> game, num |-> num]

\* a .scoreContainer: its .mainScore texts and its other .score texts
ScoreContainer(main, sets) == [main |-> main, sets |-> sets]

\* the texts of all .score elements of a score container (a .mainScore
\* element is a .score element too, see the selector of line 217)
ScoreTexts(sc) == sc.main \o sc.sets

\* a .selection-container: whether it holds an .empty-selection or
\* .icon-lock-alt element, and the stripped text of its .selection-odds
\* element (NoneStr when it has none)
Selection(locked, price) == [locked |-> locked, price |-> price]

\* a container without selection containers and without a signed number
\* in its text
Container(attrs, tooltips, players, icon, text, scores, raises) ==
  [attrs |-> attrs, tooltips |-> tooltips, text_hash |-> "1234567890",
   players |-> players, live_icon |-> icon, status_text |-> text,
   scores |-> scores, raises |-> raises,
   selections |-> <<>>, odds_matches |-> <<>>, vs_match |-> <<>>,
   mentions |-> {}]

\* the container with these selection containers, in document order, and
\* with these matches of [+-]\d+ in its text, in order
WithSelections(c, selections, odds_matches) ==
  [c EXCEPT !.selections = selections, !.odds_matches = odds_matches]

\* the container whose flattened text matches (.+?)\s+vs\s+(.+?)(?:\s|$),
\* vs_match being the two groups captured; a group is the sequence of its
\* parts, each a word or a token of the pattern of lines 161-162
WithVs(c, group1, group2) == [c EXCEPT !.vs_match = <<group1, group2>>]

\* the container whose text contains, ignoring case, these names of the
\* vocabulary of _extract_league
Mentioning(c, names) == [c EXCEPT !.mentions = names]

\* truth value of an optional string
Truthy(x) == x # NoneStr /\ x # ""

\* a slip: the tooltip id is tried before the attributes
ExtractMatchIdTooltipFirst(c) ==
  LET found == {i \in 1..Len(IdAttrs) : c.attrs[IdAttrs[i]] \notin {NoneStr, ""}}
      first == CHOOSE i \in found : \A j \in found : i <= j
      tooltip_id == c.tooltips[1]
  IN IF /\ c.tooltips # <<>>
        /\ tooltip_id # <<"">>
        /\ Len(tooltip_id) > 1
        /\ isdigit(tooltip_id[1])
     THEN tooltip_id[1]
     ELSE IF found # {} THEN c.attrs[IdAttrs[first]]
     ELSE c.text_hash

\* HardRockParser._extract_match_id
_extract_match_id(c) ==
  LET found == {i \in 1..Len(IdAttrs) : c.attrs[IdAttrs[i]] \notin {NoneStr, ""}}
      first == CHOOSE i \in found : \A j \in found : i <= j
      tooltip_id == c.tooltips[1]
  IN IF found # {} THEN c.attrs[IdAttrs[first]]
     ELSE IF /\ c.tooltips # <<>>
             /\ tooltip_id # <<"">>
             /\ Len(tooltip_id) > 1
             /\ isdigit(tooltip_id[1])
          THEN tooltip_id[1]
          ELSE c.text_hash

\* a slip: a score counts as a sign of a live match even when it is zero
ExtractMatchStatusAnyScore(c) ==
  IF c.live_icon THEN "LIVE"
  ELSE IF c.status_text.present /\ (c.status_text.set \/ c.status_text.game)
  THEN "LIVE"
  ELSE IF \E i \in 1..Len(c.scores) :
            \E j \in 1..Len(ScoreTexts(c.scores[i])) :
              isdigit(ScoreTexts(c.scores[i])[j])
  THEN "LIVE"
  ELSE "UPCOMING"

\* HardRockParser._extract_match_status
_extract_match_status(c) ==
  IF c.live_icon THEN "LIVE"
  ELSE IF c.status_text.present /\ (c.status_text.set \/ c.status_text.game)
  THEN "LIVE"
  ELSE IF \E i \in 1..Len(c.scores) :
            \E j \in 1..Len(ScoreTexts(c.scores[i])) :
              /\ isdigit(ScoreTexts(c.scores[i])[j])
              /\ ScoreTexts(c.scores[i])[j] # "0"
  THEN "LIVE"
  ELSE "UPCOMING"

\* lines 226-230: the positions kept, in order
RECURSIVE FormatSets(_, _, _)
FormatSets(p1, p2, i) ==
  IF i > Len(p1) /\ i > Len(p2) THEN <<>>
  ELSE LET score1 == IF i <= Len(p1) THEN p1[i] ELSE "0"
           score2 == IF i <= Len(p2) THEN p2[i] ELSE "0"
       IN (IF score1 # "0" \/ score2 # "0"
           THEN <<score1 \o "-" \o score2>> ELSE <<>>)
          \o FormatSets(p1, p2, i + 1)

\* HardRockParser._extract_score
_extract_score(c) ==
  IF Len(c.scores) < 2 THEN None
  ELSE LET set_scores == FormatSets(c.scores[1].sets, c.scores[2].sets, 1)
           t == c.status_text
       IN IF set_scores = <<>> THEN None
          ELSE Score(IF t.present /\ t.set /\ t.num # NoNumber
                     THEN t.num ELSE Len(set_scores),
                     set_scores)

\* the locked selections of a container
IsUnlocked(sel) == ~sel.locked

\* a slip: a locked selection is passed over instead of holding its place
ExtractOddsSkippingLocked(c) ==
  LET open == SelectSeq(c.selections, IsUnlocked)
      p1 == IF Len(open) >= 1 THEN open[1].price ELSE NoneStr
      p2 == IF Len(open) >= 2 THEN open[2].price ELSE NoneStr
      fallback == ~Truthy(p1) /\ ~Truthy(p2)
      q1 == IF fallback /\ Len(c.odds_matches) >= 1 THEN c.odds_matches[1] ELSE p1
      q2 == IF fallback /\ Len(c.odds_matches) >= 2 THEN c.odds_matches[2] ELSE p2
  IN IF Truthy(q1) \/ Truthy(q2) THEN Odds(q1, q2, now) ELSE None

\* a slip: the signed numbers of the text are preferred to the prices of the
\* selection containers
ExtractOddsRegexFirst(c) ==
  LET p1 == IF Len(c.selections) >= 1 /\ ~c.selections[1].locked
            THEN c.selections[1].price ELSE NoneStr
      p2 == IF Len(c.selections) >= 2 /\ ~c.selections[2].locked
            THEN c.selections[2].price ELSE NoneStr
      q1 == IF Len(c.odds_matches) >= 1 THEN c.odds_matches[1] ELSE p1
      q2 == IF Len(c.odds_matches) >= 2 THEN c.odds_matches[2] ELSE p2
  IN IF Truthy(q1) \/ Truthy(q2) THEN Odds(q1, q2, now) ELSE None

\* HardRockParser._extract_odds, called at instant now
_extract_odds(c) ==
  LET player_odds == [i \in 1..Len(c.selections) |->
                        IF c.selections[i].locked THEN NoneStr
                        ELSE c.selections[i].price]
      p1 == IF Len(player_odds) >= 1 THEN player_odds[1] ELSE NoneStr
      p2 == IF Len(player_odds) >= 2 THEN player_odds[2] ELSE NoneStr
      fallback == ~Truthy(p1) /\ ~Truthy(p2)
      q1 == IF fallback /\ Len(c.odds_matches) >= 1 THEN c.odds_matches[1] ELSE p1
      q2 == IF fallback /\ Len(c.odds_matches) >= 2 THEN c.odds_matches[2] ELSE p2
  IN IF Truthy(q1) \/ Truthy(q2) THEN Odds(q1, q2, now) ELSE None

\* lines 161-162: re.sub(r'[+-]\d+\.?\d*|@\d+\.?\d*|\d+/\d+', '', name).strip()
\* of a captured group: the tokens are removed, the words stay
OddsTokens == {"+120", "-110", "@2", "3/1"}
RECURSIVE CleanName(_)
CleanName(parts) ==
  IF parts = <<>> THEN ""
  ELSE LET rest == CleanName(Tail(parts)) IN
       IF Head(parts) \in OddsTokens THEN rest
       ELSE IF rest = "" THEN Head(parts)
       ELSE Head(parts) \o " " \o rest

\* a slip: the "A vs B" pattern is used whenever the text matches it
ExtractPlayersPatternFirst(c) ==
  IF c.vs_match # <<>>
  THEN <<CleanName(c.vs_match[1]), CleanName(c.vs_match[2])>>
  ELSE c.players

\* HardRockParser._extract_players: the names of the players; c.players
\* are the names read from the .participant elements that hold a name
\* element (lines 138-150)
_extract_players(c) ==
  IF Len(c.players) < 2 /\ c.vs_match # <<>>
  THEN <<CleanName(c.vs_match[1]), CleanName(c.vs_match[2])>>
  ELSE c.players

\* lines 325-328: the vocabulary, in the order it is searched
tt_leagues ==
  <<"WTT", "ITTF", "Champions League", "World Tour", "Pro Tour",
    "Europa League", "Asian Games">>

\* HardRockParser._extract_league: the first name of the vocabulary that the
\* text contains, or None
_extract_league(c) ==
  LET found == {i \in 1..Len(tt_leagues) : tt_leagues[i] \in c.mentions}
  IN IF found = {} THEN NoneStr
     ELSE tt_leagues[CHOOSE i \in found : \A j \in found : i <= j]

\* a slip: the score is extracted whatever the status
ParseContainerAlwaysScore(c) ==
  IF c.raises THEN [kind |-> "error"]
  ELSE IF Len(_extract_players(c)) # 2 THEN [kind |-> "none"]
  ELSE [kind |-> "match",
        match |-> Match(_extract_match_id(c), _extract_players(c)[1],
                        _extract_players(c)[2],
                        _extract_match_status(c), _extract_score(c),
                        _extract_odds(c), _extract_league(c))]

\* HardRockParser._parse_match_container: a Match, None, or ParseError
_parse_match_container(c) ==
  IF c.raises THEN [kind |-> "error"]
  ELSE IF Len(_extract_players(c)) # 2 THEN [kind |-> "none"]
  ELSE LET status == _extract_match_status(c) IN
       [kind |-> "match",
        match |-> Match(_extract_match_id(c), _extract_players(c)[1],
                        _extract_players(c)[2],
                        status,
                        IF status = "LIVE" THEN _extract_score(c) ELSE None,
                        _extract_odds(c), _extract_league(c))]

\* a slip: the first container that fails ends the loop of parse_html
RECURSIVE CollectUntilError(_, _)
CollectUntilError(cs, i) ==
  IF i > Len(cs) THEN <<>>
  ELSE LET r == _parse_match_container(cs[i]) IN
       IF r.kind = "error" THEN <<>>
       ELSE (IF r.kind = "match" THEN <<r.match>> ELSE <<>>)
            \o CollectUntilError(cs, i + 1)

\* lines 29-37: the for loop of parse_html from container i on
RECURSIVE Collect(_, _)
Collect(cs, i) ==
  IF i > Len(cs) THEN <<>>
  ELSE LET r == _parse_match_container(cs[i]) IN
       (IF r.kind = "match" THEN <<r.match>> ELSE <<>>) \o Collect(cs, i + 1)

\* a slip: parse_html gives up the containers behind one that fails
ParseAllUntilError(cs) == CollectUntilError(cs, 1)

\* lines 24-39: matches = []; for container in match_containers: ...
ParseAll(cs) == Collect(cs, 1)

\* the containers of the extractor's inputs ---------------------------------
NoAttrs == [a \in AttrNames |-> NoneStr]
AttrValue(a) ==
  CASE a = "data-match-id" -> "m1" [] a = "data-event-id" -> "e1"
    [] a = "data-game-id" -> "g1" [] a = "id" -> "i1"
AttrChoices == {attrs \in [AttrNames -> {NoneStr, "", "m1", "e1", "g1", "i1"}] :
                  \A a \in AttrNames : attrs[a] \in {NoneStr, "", AttrValue(a)}}
TooltipChoices ==
  {<<>>, <<<<"619", "619">>>>, <<<<"ab", "1">>>>, <<<<"619">>>>, <<<<"">>>>,
   <<<<"ab", "1">>, <<"619", "619">>>>}

StatusTextChoices ==
  {NoStatusText, StatusText(TRUE, FALSE, 3), StatusText(TRUE, FALSE, NoNumber),
   StatusText(FALSE, TRUE, 2), StatusText(FALSE, FALSE, 11),
   StatusText(FALSE, FALSE, NoNumber)}
ScoreChoices ==
  {<<>>,
   <<ScoreContainer(<<"0">>, <<"0">>), ScoreContainer(<<"0">>, <<"0">>)>>,
   <<ScoreContainer(<<"1">>, <<"6", "3">>), ScoreContainer(<<"1">>, <<"4", "6">>)>>,
   <<ScoreContainer(<<>>, <<"11">>), ScoreContainer(<<>>, <<"9", "0", "3">>)>>,
   <<ScoreContainer(<<>>, <<"0", "4">>), ScoreContainer(<<>>, <<"0">>)>>,
   <<ScoreContainer(<<"-">>, <<"-", "">>), ScoreContainer(<<"-">>, <<>>)>>,
   <<ScoreContainer(<<"3">>, <<"6">>)>>}

\* containers that differ in what identifies them, and containers that
\* differ in the signals of status and score
IdContainers ==
  {Container(attrs, tips, <<"A", "B">>, FALSE, NoStatusText, <<>>, FALSE) :
     attrs \in AttrChoices, tips \in TooltipChoices}
StatusContainers ==
  {Container([NoAttrs EXCEPT !["data-match-id"] = "m1"], <<>>, <<"A", "B">>,
             icon, text, scores, FALSE) :
     icon \in BOOLEAN, text \in StatusTextChoices, scores \in ScoreChoices}
\* containers that differ in their selection containers and in the signed
\* numbers of their text
MaxSelections == 3     \* selection containers in one container
SelectionChoices ==
  {Selection(FALSE, "-110"), Selection(FALSE, "+120"), Selection(TRUE, "-150"),
   Selection(TRUE, NoneStr), Selection(FALSE, NoneStr), Selection(FALSE, "")}
\* lines 288-290: the matches of [+-]\d+ in the text of a container, in
\* order: those of the text before its selection containers, the price
\* texts shown in them (locked or not), those of the text behind them
ShowsPrice(sel) == Truthy(sel.price)
SignedNumbers(before, sels, behind) ==
  LET shown == SelectSeq(sels, ShowsPrice)
  IN before \o [i \in 1..Len(shown) |-> shown[i].price] \o behind
TextBefore == {<<>>, <<"+120">>}
TextBehind == {<<>>, <<"+1">>}
OddsContainers ==
  {WithSelections(Container([NoAttrs EXCEPT !["data-match-id"] = "m1"], <<>>,
                            <<"A", "B">>, FALSE, NoStatusText, <<>>, FALSE),
                  sels, SignedNumbers(before, sels, behind)) :
     sels \in UNION {[1..n -> SelectionChoices] : n \in 0..MaxSelections},
     before \in TextBefore, behind \in TextBehind}
\* containers that differ in the names found by the selectors and in the
\* "A vs B" pattern of their text
MaxParticipants == 3   \* .participant elements with a name element
VsChoices ==
  {<<>>, <<<<"A">>, <<"B">>>>, <<<<"+120", "A">>, <<"B", "3/1">>>>,
   <<<<"@2">>, <<"B">>>>}
PlayerContainers ==
  {[Container(attrs, <<>>, names, FALSE, NoStatusText, <<>>, FALSE)
      EXCEPT !.vs_match = vs] :
     attrs \in {NoAttrs, [NoAttrs EXCEPT !["data-match-id"] = "m1"]},
     names \in UNION {[1..n -> {"A", "B"}] : n \in 0..MaxParticipants},
     vs \in VsChoices}
Containers ==
  IdContainers \cup StatusContainers \cup OddsContainers \cup PlayerContainers

\* the containers of a markup handed to parse_html: two live ones (one
\* showing only zeros), two upcoming ones (one showing zeros, one dashes),
\* one with an unusable participant list, one whose parsing raises
PageContainer(id, players, icon, scores, raises) ==
  Container([NoAttrs EXCEPT !["data-match-id"] = id], <<>>, players, icon,
            NoStatusText, scores, raises)
PageContainers ==
  {PageContainer("m1", <<"A", "B">>, TRUE,
                 <<ScoreContainer(<<"1">>, <<"6", "3">>),
                   ScoreContainer(<<"1">>, <<"4", "6">>)>>, FALSE),
   PageContainer("m1", <<"A", "B">>, TRUE,
                 <<ScoreContainer(<<"0">>, <<"0">>),
                   ScoreContainer(<<"0">>, <<"0">>)>>, FALSE),
   PageContainer("m1", <<"A", "B">>, FALSE,
                 <<ScoreContainer(<<"0">>, <<"0">>),
                   ScoreContainer(<<"0">>, <<"0">>)>>, FALSE),
   PageContainer("m2", <<"A", "B">>, FALSE,
                 <<ScoreContainer(<<"-">>, <<"-">>),
                   ScoreContainer(<<"-">>, <<"-">>)>>, FALSE),
   PageContainer("m2", <<"A">>, FALSE, <<>>, FALSE),
   Mentioning(PageContainer("m2", <<"A", "B">>, FALSE, <<>>, FALSE),
              {"ITTF", "WTT"}),
   PageContainer("m1", <<"A", "B">>, TRUE, <<>>, TRUE)}

\* a markup: its containers, or something BeautifulSoup or the selectors
\* cannot process
Markup(containers, broken) == [containers |-> containers, broken |-> broken]
Markups ==
  {Markup(cs, b) : cs \in UNION {[1..n -> PageContainers] : n \in 0..MaxContainers},
                   b \in BOOLEAN}

extractRest == <<now, store, callVars, sweepVars, schedVars, orchVars>>

\* _parse_match_container(container) returns or raises
ParseContainer ==
  /\ p_pc = "ready"
  /\ p_c # None
  /\ p_res' = _parse_match_container(p_c)
  /\ p_pc' = "done"
  /\ UNCHANGED <<p_html, p_out, p_c, extractRest>>

\* parse_html(html_content) returns the list of the containers parsed
ParseHtmlReturns ==
  /\ p_pc = "ready"
  /\ p_html # None
  /\ ~p_html.broken
  /\ p_out' = ParseAll(p_html.containers)
  /\ p_pc' = "returned"
  /\ UNCHANGED <<p_html, p_c, p_res, extractRest>>

\* parse_html(html_content) raises ParseError (lines 41-42)
ParseHtmlRaises ==
  /\ p_pc = "ready"
  /\ p_html # None
  /\ p_html.broken
  /\ p_pc' = "raised"
  /\ UNCHANGED <<p_html, p_out, p_c, p_res, extractRest>>

\* get_matches lines 76-78: the list extracted is handed to store_matches
StoreParsed ==
  /\ p_pc = "returned"
  /\ auto_store
  /\ p_out # <<>>
  /\ calls < MaxCalls
  /\ StoreMatchesCall("t1", p_out)

(***************************************************************************)
(* SpecExtract: _parse_match_container applied to one container.           *)
(***************************************************************************)
InitExtract ==
  /\ now = 0
  /\ store = [id \in Ids |-> None]
  /\ InitCalls
  /\ InitSweep
  /\ InitSched
  /\ InitOrch
  /\ p_pc = "ready"
  /\ p_html = None
  /\ p_out = <<>>
  /\ p_c \in Containers
  /\ p_res = None

NextExtract == ParseContainer

SpecExtract == InitExtract /\ [][NextExtract]_vars

(***************************************************************************)
(* SpecParse: parse_html applied to a markup, the list stored as           *)
(* get_matches does.                                                        *)
(***************************************************************************)
InitParseStore ==
  /\ InitStore
  /\ InitCalls
  /\ InitSweep
  /\ InitSched
  /\ InitOrch
  /\ p_pc = "ready"
  /\ p_html \in Markups
  /\ p_out = <<>>
  /\ p_c = None
  /\ p_res = None

NextParse ==
  \/ ParseHtmlReturns
  \/ ParseHtmlRaises
  \/ StoreParsed
  \/ GetMatchRead("t1")
  \/ GetMatchError("t1")
  \/ BuildDoc("t1")
  \/ UpsertOk("t1")
  \/ UpsertError("t1")
  \/ StoreMatchesReturn("t1")

SpecParse == InitParseStore /\ [][NextParse]_vars

(***************************************************************************)
(* SpecLeague: one pass of the for loop of scrape_all_leagues, for the     *)
(* league of index o_i, whose scraper is constructed with auto_store.      *)
(***************************************************************************)
InitLeague ==
  /\ InitStore
  /\ InitCalls
  /\ InitSweep
  /\ InitSched
  /\ o_pc = "none"
  /\ o_i \in LeagueIds
  /\ o_start = 0
  /\ o_stop = [l \in LeagueIds |-> FALSE]
  /\ o_thread = [l \in LeagueIds |-> "none"]
  /\ o_joined = [l \in LeagueIds |-> FALSE]
  /\ o_closed = [l \in LeagueIds |-> FALSE]
  /\ o_ret = NoneStr
  /\ o_last_cleanup = 0
  /\ o_passes = 0
  /\ p_pc = "ready"
  /\ p_html \in Markups
  /\ p_out = <<>>
  /\ p_c = None
  /\ p_res = None

\* get_matches lines 75-77, once per call of get_matches
GetMatchesStores ==
  /\ calls = 0
  /\ StoreParsed

\* get_matches has returned its list: nothing was to be stored, or
\* store_matches has returned
GetMatchesReturned ==
  /\ p_pc = "returned"
  /\ (auto_store /\ p_out # <<>>) => (calls = 1 /\ s_pc["t1"] = "idle")

\* scrape_all_leagues lines 70-73: match.league = league_name for every
\* match of the list get_matches returned
AssignLeague ==
  /\ GetMatchesReturned
  /\ p_out' = [i \in 1..Len(p_out) |-> [p_out[i] EXCEPT !.league = Leagues[o_i]]]
  /\ p_pc' = "labelled"
  /\ UNCHANGED <<p_html, p_c, p_res, extractRest>>

NextLeague ==
  \/ ParseHtmlReturns
  \/ ParseHtmlRaises
  \/ GetMatchesStores
  \/ GetMatchRead("t1")
  \/ GetMatchError("t1")
  \/ BuildDoc("t1")
  \/ UpsertOk("t1")
  \/ UpsertError("t1")
  \/ StoreMatchesReturn("t1")
  \/ AssignLeague

SpecLeague == InitLeague /\ [][NextLeague]_vars

(***************************************************************************)
(* SpecSeq: one caller of the store, no retention sweep.                   *)
(***************************************************************************)
InitSeq == InitStore /\ InitCalls /\ InitSweep /\ InitOther /\ InitSched

NextSeq ==
  \/ Tick
  \/ Call("t1")
  \/ GetMatchRead("t1")
  \/ GetMatchError("t1")
  \/ BuildDoc("t1")
  \/ UpsertOk("t1")
  \/ UpsertError("t1")
  \/ StoreMatchesReturn("t1")

SpecSeq == InitSeq /\ [][NextSeq]_vars

(***************************************************************************)
(* SpecSweep: the retention sweep with no writer at work.  The container   *)
(* holds, per identifier, nothing, a record last merged at instant -1 or a *)
(* record created at instant 0.                                            *)
(***************************************************************************)
YoungDoc(id) ==
  _match_to_document(Match(id, "A", "B", "LIVE", S1, O1(0), "TT Cup"), 0)

InitSweepOnly ==
  /\ now = 0
  /\ store \in [Ids -> {None, SeedDoc1, SeedDoc2} \cup {YoungDoc(id) : id \in Ids}]
  /\ \A id \in Ids : store[id] # None => store[id].id = id
  /\ InitCalls
  /\ InitSweep /\ InitOther
  /\ InitSched

NextSweep ==
  \/ Tick
  \/ SweepQuery
  \/ SweepQueryError
  \/ SweepDeleteOk
  \/ SweepDeleteError
  \/ SweepReturn
  \/ SweepDone

SpecSweep == InitSweepOnly /\ [][NextSweep]_vars

(***************************************************************************)
(* Spec: the store shared by the monitoring threads.  Two sources list the *)
(* same identifier, and each thread merges single-entity batches for it.   *)
(***************************************************************************)
MaxConcCalls == 2    \* store_matches calls per behaviour of Spec
ConcIds == {"m1"}

ConcCall(t) ==
  /\ calls < MaxConcCalls
  /\ \E m \in {x \in Matches(now) : x.match_id \in ConcIds} :
       StoreMatchesCall(t, <<m>>)

Init ==
  /\ InitStore
  /\ \A id \in Ids \ ConcIds : store[id] = None
  /\ InitCalls
  /\ InitSweep /\ InitOther
  /\ InitSched

Next ==
  \/ Tick
  \/ \E t \in Threads :
       \/ ConcCall(t)
       \/ GetMatchRead(t)
       \/ GetMatchError(t)
       \/ BuildDoc(t)
       \/ UpsertOk(t)
       \/ UpsertError(t)
       \/ StoreMatchesReturn(t)

Spec == Init /\ [][Next]_vars

(***************************************************************************)
(* SpecRetain: the orchestrator's retention sweep at work while a          *)
(* monitoring thread merges observations of one identifier.                *)
(***************************************************************************)
NextRetain ==
  \/ Tick
  \/ SweepQuery
  \/ SweepQueryError
  \/ SweepDeleteOk
  \/ SweepDeleteError
  \/ SweepReturn
  \/ SweepDone
  \/ ConcCall("t1")
  \/ GetMatchRead("t1")
  \/ GetMatchError("t1")
  \/ BuildDoc("t1")
  \/ UpsertOk("t1")
  \/ UpsertError("t1")
  \/ StoreMatchesReturn("t1")

SpecRetain == Init /\ [][NextRetain]_vars

(***************************************************************************)
(* SpecCap: the history-cap scenario.  One caller merges MaxMerges         *)
(* observations of one identifier, one per call, each with odds no earlier *)
(* observation had, on a store whose transport does not fail.              *)
(***************************************************************************)
CapId == "m1"

CapMatch(k, t) ==
  LET m == SeedMatch(CapId, k, t) IN
  [m EXCEPT !.odds = Odds(ToString(k), ToString(0 - k), t)]

InitCap ==
  /\ now = 0
  /\ store \in {[id \in Ids |-> None], [id \in Ids |-> IF id = CapId THEN SeedDoc1 ELSE None]}
  /\ InitCalls
  /\ InitSweep /\ InitOther
  /\ InitSched

\* the k-th call, at instant k
CapCall ==
  /\ calls < MaxMerges
  /\ now' = now + 1
  /\ s_pc["t1"] = "idle"
  /\ calls' = calls + 1
  /\ s_matches' = [s_matches EXCEPT !["t1"] = <<CapMatch(calls + 1, now + 1)>>]
  /\ s_i' = [s_i EXCEPT !["t1"] = 1]
  /\ s_count' = [s_count EXCEPT !["t1"] = 0]
  /\ s_log' = [s_log EXCEPT !["t1"] = <<>>]
  /\ s_existing' = [s_existing EXCEPT !["t1"] = None]
  /\ s_updated' = [s_updated EXCEPT !["t1"] = None]
  /\ s_pc' = [s_pc EXCEPT !["t1"] = "get"]
  /\ UNCHANGED <<store, sweepVars, schedVars, otherVars>>

NextCap ==
  \/ CapCall
  \/ GetMatchRead("t1")
  \/ BuildDoc("t1")
  \/ UpsertOk("t1")
  \/ StoreMatchesReturn("t1")

SpecCap == InitCap /\ [][NextCap]_vars

(***************************************************************************)
(* Properties.                                                             *)
(***************************************************************************)
Histories(doc) == <<doc.score_history, doc.odds_history, doc.status_history>>

Capped(doc) ==
  \A i \in 1..3 : Len(Histories(doc)[i]) <= max_history_entries

\* thread t completes the upsert of its current match in this step
Upserted(t) == s_pc[t] = "upsert" /\ s_count'[t] = s_count[t] + 1

\* the odds entries the first n calls of the history-cap scenario observed
CapObserved(n) ==
  [k \in 1..n |-> OddsEntry(CapMatch(k, k).odds, IsoFormat(Datetime(k)))]

\* the odds history the scenario started from
CapStart ==
  IF store[CapId].created_at = SeedDoc1.created_at THEN SeedDoc1.odds_history ELSE <<>>

SameFacets(doc, m) ==
  /\ doc.match_id = m.match_id
  /\ doc.status = StatusValue(m.status)
  /\ (doc.score = None) = (m.score = None)
  /\ m.score # None => ~_score_changed(doc.score, m.score)
  /\ (doc.odds = None) = (m.odds = None)
  /\ m.odds # None =>
       /\ doc.odds.player1_moneyline = m.odds.player1_moneyline
       /\ doc.odds.player2_moneyline = m.odds.player2_moneyline
       /\ doc.odds.handicap_line = m.odds.handicap_line
       /\ doc.odds.player1_handicap = m.odds.player1_handicap
       /\ doc.odds.player2_handicap = m.odds.player2_handicap
       /\ doc.odds.over_under_line = m.odds.over_under_line
       /\ doc.odds.over_odds = m.odds.over_odds
       /\ doc.odds.under_odds = m.odds.under_odds

C3_CreatedAtSetOnce ==
  [][\A id \in Ids :
       (store[id] # None /\ store'[id] # None) =>
         store'[id].created_at = store[id].created_at]_vars

\* h2 is h1 with zero or one entry appended and then trimmed to the cap
AppendedAndTrimmed(h1, h2) ==
  \/ h2 = LastN(h1, max_history_entries)
  \/ /\ h2 # <<>>
     /\ h2 = LastN(Append(h1, h2[Len(h2)]), max_history_entries)

\* C4: a merge into an existing record leaves each history as it was, with
\* zero or one entry appended at the end and trimmed oldest-first to the cap.
C4_HistoryAppendOnly ==
  [][\A id \in Ids :
       (store[id] # None /\ store'[id] # None) =>
         \A i \in 1..3 :
           AppendedAndTrimmed(Histories(store[id])[i], Histories(store'[id])[i])]_vars

\* C5: store_matches returns only after the loop has visited every entity
\* of the batch; every entity is either counted or logged as failed; the
\* count grows exactly in the steps that write the built document to the
\* store, and a logged failure leaves the store as it was and the loop going.
C5_BatchContinues ==
  [][\A t \in Threads :
       /\ s_pc'[t] = "returned" =>
            /\ s_i'[t] = Len(s_matches'[t]) + 1
            /\ s_count'[t] + Len(s_log'[t]) = Len(s_matches'[t])
       /\ s_count'[t] = s_count[t] + 1 =>
            /\ s_pc[t] = "upsert"
            /\ store'[CurMatch(t).match_id] = s_updated[t]
            /\ s_log'[t] = s_log[t]
       /\ s_log'[t] # s_log[t] /\ s_log'[t] # <<>> =>
            /\ s_log'[t] = Append(s_log[t], CurMatch(t).match_id)
            /\ store' = store
            /\ s_count'[t] = s_count[t]
            /\ s_i'[t] = s_i[t] + 1]_vars

\* the first entity of a batch failed, the second was still stored
C5_Witness ==
  /\ s_pc["t1"] = "returned"
  /\ Len(s_matches["t1"]) = 2
  /\ s_log["t1"] = <<s_matches["t1"][1].match_id>>
  /\ s_count["t1"] = 1
  /\ store[s_matches["t1"][2].match_id] = s_updated["t1"]

\* the entity a stored document's snapshot fields stand for
\* (the values to_dict serialised, read back)
StatusOfValue(v) == CHOOSE s \in MatchStatus : StatusValue(s) = v
FromIso(x) == IF x = None THEN None ELSE Datetime(x.iso)
SnapshotEntity(doc) ==
  [match_id |-> doc.id,
   player1 |-> doc.player1, player2 |-> doc.player2,
   status |-> StatusOfValue(doc.status),
   score |-> doc.score,
   odds |-> IF doc.odds = None THEN None
            ELSE [doc.odds EXCEPT !.timestamp = FromIso(doc.odds.timestamp)],
   start_time |-> FromIso(doc.start_time),
   league |-> doc.league,
   tournament |-> doc.tournament]

\* C6: after a successful merge of an entity, the record read by its
\* identifier has snapshot fields equal to the entity's fields, whether the
\* record was created or already existed.
C6_RoundTrip ==
  [][\A t \in Threads :
       Upserted(t) =>
         LET doc == store'[CurMatch(t).match_id] IN
         /\ doc # None
         /\ doc.match_id = CurMatch(t).match_id
         /\ SnapshotEntity(doc) = CurMatch(t)]_vars

\* a merge replaced a record that held other snapshot values
C6_Witness ==
  /\ s_pc["t1"] = "returned"
  /\ s_count["t1"] >= 1
  /\ s_existing["t1"] # None
  /\ store[s_updated["t1"].id] = s_updated["t1"]
  /\ s_existing["t1"].status # s_updated["t1"].status
  /\ s_existing["t1"].player1 # s_updated["t1"].player1
  /\ s_existing["t1"].league # s_updated["t1"].league
  /\ s_existing["t1"].score # s_updated["t1"].score

Monotone(h) ==
  \A i \in 1..(Len(h) - 1) : IsoLE(h[i].timestamp, h[i + 1].timestamp)

\* C8: in every reachable state, the timestamps of each history of each
\* record are non-decreasing, whatever the interleaving of the threads'
\* merges (the clock never goes back).
C8_HistoryMonotone ==
  \A id \in Ids :
    store[id] # None => \A i \in 1..3 : Monotone(Histories(store[id])[i])

\* both threads read the same prior record; t1 stamped its document first
\* and wrote it last, over the document of t2
C8_Witness ==
  /\ s_pc["t1"] = "returned"
  /\ s_pc["t2"] = "returned"
  /\ s_existing["t1"] # None
  /\ s_existing["t1"] = s_existing["t2"]
  /\ s_updated["t1"].last_updated.iso < s_updated["t2"].last_updated.iso
  /\ s_count["t1"] = 1
  /\ s_count["t2"] = 1
  /\ store["m1"] = s_updated["t1"]
  /\ Len(store["m1"].status_history) >= 2
  /\ store["m1"].status_history # s_existing["t1"].status_history

\* the positions at which _monitor_loop has returned or is about to
Ended == {"exit", "init_failed", "cb_failed", "dead"}

\* the positions inside the while loop
LoopPcs == {"top", "iter", "full", "smart", "fallback", "update", "wait", "except",
            "error_wait"}

\* C9: the monitoring loop ends only because the stop signal was found set
\* at the loop condition, or the maximum duration has expired, or the
\* mandatory initial FullRefresh failed; no error inside an iteration ends it.
C9_TerminationReasons ==
  [][\A k \in MonThreads :
       (m_pc[k] \notin Ended /\ m_pc'[k] \in Ended) =>
         \/ m_pc[k] = "top" /\ stop_event
         \/ m_pc[k] = "iter" /\ m_max[k] # 0 /\ now - m_start[k] > m_max[k]
         \/ m_pc[k] = "initial"]_vars

\* the step of thread k is a failed initial FullRefresh
InitialFails(k) ==
  /\ m_pc[k] = "initial"
  /\ m_loads'[k] = m_loads[k] + 1
  /\ last_html' \notin Pages \/ ParseFails(last_html')

\* the step of thread k is a successful initial FullRefresh
InitialSucceeds(k) ==
  /\ m_pc[k] = "initial"
  /\ m_loads'[k] = m_loads[k] + 1
  /\ last_html' \in Pages /\ ~ParseFails(last_html')

C10_Steps ==
  \A k \in MonThreads :
    /\ InitialSucceeds(k) =>
         /\ last_matches' = parse_html(last_html')
         /\ store_calls' = IF auto_store /\ last_matches' # <<>>
                           THEN store_calls + 1 ELSE store_calls
    /\ InitialFails(k) => m_pc'[k] = "init_failed"
    /\ m_pc[k] = "init_failed" =>
         /\ m_iters'[k] = 0 /\ m_loads'[k] = 1
         /\ m_pc'[k] \in {"init_failed", "dead"}
         /\ m_pc'[k] = "dead" => ~is_monitoring'
    /\ m_pc[k] = "dead" =>
         /\ m_pc'[k] = "dead"
         /\ m_iters'[k] = m_iters[k] /\ m_loads'[k] = m_loads[k]

C10_State ==
  \A k \in MonThreads :
    /\ m_pc[k] \in {"none", "spawned", "initial"} =>
         m_loads[k] = 0 /\ m_iters[k] = 0
    /\ (m_pc[k] \in LoopPcs \cup {"initial_cb", "init_failed", "cb_failed"}
          /\ m_iters[k] = 0) => m_loads[k] = 1
    /\ m_pc[k] \in LoopPcs \ {"top"} => m_iters[k] >= 1
    /\ m_pc[k] \in {"init_failed", "cb_failed", "initial_cb"} => m_iters[k] = 0

\* C10: a started scheduler performs exactly one FullRefresh (fetch,
\* extract, and the store call when storing is enabled and something was
\* extracted) before its first loop iteration; when that refresh fails
\* there is never a loop iteration nor another refresh, the thread ends
\* and is_monitoring is false when it has.
C10_InitialRefresh ==
  /\ []C10_State
  /\ [][C10_Steps]_vars
  /\ \A k \in MonThreads : (m_pc[k] = "init_failed") ~> (m_pc[k] = "dead")

C10_Witness ==
  \E k \in MonThreads :
    /\ m_pc[k] = "dead"
    /\ last_html = "pBad"
    /\ m_iters[k] = 0 /\ m_loads[k] = 1
    /\ ~is_monitoring


\* C11: once the stop signal is set a started monitoring thread ends,
\* given that its in-flight calls return; the signal is taken at the next
\* evaluation of the loop condition, no further iteration is begun, and a
\* wait (normal or after an error) that finds the signal set returns without
\* letting its interval pass.
C11_StopObserved ==
  /\ \A k \in MonThreads :
       (stop_event /\ m_pc[k] # "none") ~> (m_pc[k] = "dead")
  /\ [][\A k \in MonThreads :
          stop_event =>
            /\ m_iters'[k] = m_iters[k]
            /\ m_pc[k] = "top" => m_pc'[k] \in {"top", "exit"}
            /\ (m_pc[k] \in {"wait", "error_wait"} /\ m_pc'[k] # m_pc[k]) =>
                 (m_pc'[k] = "top" /\ now' = now)]_vars

C11_Witness ==
  \E k \in MonThreads :
    /\ m_pc[k] = "dead"
    /\ stop_event
    /\ m_max[k] = 0
    /\ m_iters[k] >= 1
    /\ now - m_start[k] < live_refresh_interval

\* C12: with a maximum duration D > 0 the loop ends at the first iteration
\* top reached after more than D seconds have passed since the loop's start,
\* also for D of a day or more.
C12_MaxDurationEnds ==
  [][\A k \in MonThreads :
       (m_pc[k] = "iter" /\ m_max[k] > 0 /\ now - m_start[k] > m_max[k]) =>
         m_pc'[k] \in {"iter", "exit"}]_vars

\* the interval that an observation calls for
IntervalFor(matches) ==
  IF \E i \in 1..Len(matches) : is_live(matches[i])
  THEN live_refresh_interval
  ELSE upcoming_refresh_interval

\* C13: the wait that follows a refresh lasts the live interval when the
\* observation produced by that refresh holds a live entity, and the
\* upcoming interval when it holds none.
C13_IntervalFromFreshObservation ==
  [][\A k \in MonThreads :
       (m_pc[k] = "wait" /\ m_pc'[k] = "top" /\ ~stop_event) =>
         now' - now = IntervalFor(m_matches[k])]_vars

\* the step of thread k is a FullRefresh of the loop, or a recovery
\* FullRefresh, that has extracted an entity list
LoopFullRefreshYields(k) ==
  \/ InFullRefresh(k) /\ m_pc'[k] = "update"
  \/ /\ m_pc[k] = "except"
     /\ now' > now + RecoveryPause
     /\ ~ParseFails(last_html')

\* the step of thread k is a SmartRefresh that has extracted the entity
\* list of changed content
SmartRefreshYields(k) ==
  m_pc[k] = "smart" /\ m_pc'[k] = "update" /\ last_html' # last_html

\* C14: with auto-store on, each refresh of the loop that yields an entity
\* list (FullRefresh, recovery FullRefresh, SmartRefresh on changed content)
\* hands the list to store_matches, and each successful FullRefresh records
\* a new last_full_refresh.
C14_LoopRefreshStores ==
  [][\A k \in MonThreads :
       /\ (LoopFullRefreshYields(k) \/ SmartRefreshYields(k)) =>
            ((auto_store /\ m_matches'[k] # <<>>) =>
               store_calls' = store_calls + 1)
       /\ LoopFullRefreshYields(k) => last_full_refresh' = now']_vars

\* C15: on every shutdown path the orchestrator releases the adapters
\* only after the stop signal of every scraper is set and every monitoring
\* thread has ended or has been waited for; each wait is bounded.
C15_ShutdownWaits ==
  [][/\ (\E l \in LeagueIds : o_closed'[l] /\ ~o_closed[l]) =>
          \A l \in LeagueIds :
            /\ o_stop[l]
            /\ o_thread[l] = "alive" => o_joined[l]
     /\ o_pc = "join" => now' - now <= JoinTimeout]_vars

\* a container that yields an entity: two participants, nothing raised
WellFormed(c) == ~c.raises /\ Len(_extract_players(c)) = 2

\* how many of the first i containers yield an entity
Yielded(cs, i) == Cardinality({j \in 1..i : WellFormed(cs[j])})

\* C16: parse_html raises only for a markup that cannot be processed as a
\* whole; otherwise it returns, in order, the entity of every container
\* that yields one, whatever containers fail or are unusable around it.
C16_MalformedContainerSkipped ==
  /\ p_pc = "raised" => p_html.broken
  /\ p_pc = "returned" =>
       LET cs == p_html.containers IN
       /\ ~p_html.broken
       /\ Len(p_out) = Yielded(cs, Len(cs))
       /\ \A i \in 1..Len(cs) :
            WellFormed(cs[i]) =>
              p_out[Yielded(cs, i)] = _parse_match_container(cs[i]).match

C16_Witness ==
  /\ p_pc = "returned"
  /\ \E i, j \in 1..Len(p_html.containers) :
       /\ i < j
       /\ p_html.containers[i].raises
       /\ WellFormed(p_html.containers[j])
  /\ p_out # <<>>

\* the score values shown in the score sub-containers of a container
ScoreValues(c) ==
  UNION {{ScoreTexts(c.scores[i])[j] : j \in 1..Len(ScoreTexts(c.scores[i]))} :
           i \in 1..Len(c.scores)}

\* the status the precedence of the four signals calls for
StatusBySignals(c) ==
  CASE c.live_icon -> "LIVE"
    [] ~c.live_icon /\ c.status_text.present
         /\ (c.status_text.set \/ c.status_text.game) -> "LIVE"
    [] ~c.live_icon
         /\ ~(c.status_text.present /\ (c.status_text.set \/ c.status_text.game))
         /\ (\E v \in ScoreValues(c) : isdigit(v) /\ IntOf(v) # 0) -> "LIVE"
    [] OTHER -> "UPCOMING"

\* C17: the status of an extracted entity is live if the container has a
\* live indicator; else live if its status text holds a set or game
\* keyword; else live if a score value in a score sub-container is numeric
\* and not zero; else upcoming.
C17_StatusPrecedence ==
  (p_pc = "done" /\ p_res.kind = "match") =>
    p_res.match.status = StatusBySignals(p_c)

\* zero scores and no keyword in the status text
OnlyZeroScores(c) ==
  /\ ScoreValues(c) = {"0"}
  /\ ~(c.status_text.present /\ (c.status_text.set \/ c.status_text.game))

C17_Witness ==
  /\ p_pc = "done"
  /\ OnlyZeroScores(p_c)
  /\ p_c.live_icon
  /\ p_res.match.status = "LIVE"

\* the secondary score of participant n at position i, "0" when missing
SetScoreAt(c, n, i) ==
  IF i <= Len(c.scores[n].sets) THEN c.scores[n].sets[i] ELSE "0"

\* the positions where not both sides are "0"
KeptPositions(c) ==
  LET longest == IF Len(c.scores[1].sets) >= Len(c.scores[2].sets)
                 THEN Len(c.scores[1].sets) ELSE Len(c.scores[2].sets)
  IN {i \in 1..longest : ~(SetScoreAt(c, 1, i) = "0" /\ SetScoreAt(c, 2, i) = "0")}

\* C18: the score of a live container holds, for each position where not
\* both participants show "0", the string "p1-p2" of that position, in
\* order (a missing position counts as "0"); its current set is the number
\* of these strings unless the status text carries a number, which then
\* is the current set.
C18_ScoreFormatting ==
  (p_pc = "done" /\ p_res.kind = "match"
     /\ p_res.match.status = "LIVE" /\ Len(p_c.scores) >= 2) =>
    LET kept == KeptPositions(p_c)
        score == p_res.match.score
    IN /\ kept # {} => score # None
       /\ score # None =>
            /\ Len(score.set_scores) = Cardinality(kept)
            /\ \A i \in kept :
                 score.set_scores[Cardinality({j \in kept : j <= i})]
                   = SetScoreAt(p_c, 1, i) \o "-" \o SetScoreAt(p_c, 2, i)
            /\ score.current_set =
                 IF p_c.status_text.present /\ p_c.status_text.num # NoNumber
                 THEN p_c.status_text.num
                 ELSE Cardinality(kept)

\* attribute number i of the container is present with a value
HasValue(c, i) == c.attrs[IdAttrs[i]] # NoneStr /\ c.attrs[IdAttrs[i]] # ""

\* the first nested control with a tooltip id has one of the form
\* digits, dash, rest
NumericTooltip(c) ==
  /\ Len(c.tooltips) >= 1
  /\ Len(c.tooltips[1]) >= 2
  /\ isdigit(c.tooltips[1][1])

\* C19: the identifier of an extracted entity is the value of the first
\* of the attributes data-match-id, data-event-id, data-game-id, id that is
\* present with a value; when none is, the numeric prefix of the tooltip
\* id of the first nested control that has one; when that is missing too,
\* the text hash.
C19_IdentifierPriority ==
  (p_pc = "done" /\ p_res.kind = "match") =>
    LET id == p_res.match.match_id IN
    /\ \A i \in 1..Len(IdAttrs) :
         (HasValue(p_c, i) /\ \A j \in 1..(i - 1) : ~HasValue(p_c, j)) =>
           id = p_c.attrs[IdAttrs[i]]
    /\ (\A i \in 1..Len(IdAttrs) : ~HasValue(p_c, i)) =>
         /\ NumericTooltip(p_c) => id = p_c.tooltips[1][1]
         /\ ~NumericTooltip(p_c) => id = p_c.text_hash

C19_Witness ==
  /\ p_pc = "done"
  /\ HasValue(p_c, 1)
  /\ NumericTooltip(p_c)
  /\ p_res.match.match_id = p_c.attrs["data-match-id"]

\* C20: an entity returned by the extractor has a score only if its
\* status is live, and so has the current snapshot of every stored record.
C20_ScoreOnlyWhenLive ==
  /\ \A i \in 1..Len(p_out) :
       p_out[i].score # None => p_out[i].status = "LIVE"
  /\ \A id \in Ids :
       (store[id] # None /\ store[id].score # None) =>
         store[id].status = StatusValue("LIVE")

\* a record stored live with a score, then merged with an upcoming entity
C20_Witness ==
  /\ Len(p_out) = 2
  /\ p_out[1].match_id = "m1" /\ p_out[1].score # None
  /\ p_out[2].match_id = "m1" /\ p_out[2].status = "UPCOMING"
  /\ s_pc["t1"] = "returned"
  /\ s_count["t1"] = 2
  /\ store["m1"].status = StatusValue("UPCOMING")
  /\ store["m1"].score = None


\* the facet predicates of the specification, on a history entry and an
\* incoming entity: they look at no timestamp
ScoreDiffers(e, m) ==
  e.current_set # m.score.current_set \/ e.set_scores # m.score.set_scores

OddsFields ==
  {"player1_moneyline", "player2_moneyline", "handicap_line", "player1_handicap",
   "player2_handicap", "over_under_line", "over_odds", "under_odds"}

OddsDiffer(e, m) == \E f \in OddsFields : e[f] # m.odds[f]

StatusDiffers(e, m) == e.status # StatusValue(m.status)

\* per facet: is the incoming facet present, and does it differ from the
\* last entry of the history (an empty history has no entry to agree with)
FacetPresent(i, m) ==
  CASE i = 1 -> m.score # None
    [] i = 2 -> m.odds # None
    [] i = 3 -> TRUE

FacetDiffers(i, h, m) ==
  \/ h = <<>>
  \/ CASE i = 1 -> ScoreDiffers(h[Len(h)], m)
       [] i = 2 -> OddsDiffer(h[Len(h)], m)
       [] i = 3 -> StatusDiffers(h[Len(h)], m)

\* the entry {now, facet snapshot}
FacetEntry(i, m, t) ==
  LET ct == IsoFormat(Datetime(t)) IN
  CASE i = 1 -> [timestamp |-> ct, current_set |-> m.score.current_set,
                 set_scores |-> m.score.set_scores,
                 total_games |-> m.score.total_games]
    [] i = 2 -> [f \in OddsFields \cup {"timestamp"} |->
                   IF f = "timestamp" THEN ct ELSE m.odds[f]]
    [] i = 3 -> [timestamp |-> ct, status |-> StatusValue(m.status)]

\* thread t builds the document of a merge into the record it read
MergeBuilt(t) ==
  s_pc[t] = "build" /\ s_pc'[t] = "upsert" /\ s_existing[t] # None

C21_WitnessAppended ==
  /\ s_pc["t1"] = "upsert"
  /\ s_existing["t1"] # None
  /\ \A i \in 1..3 :
       /\ Len(Histories(s_existing["t1"])[i]) = max_history_entries
       /\ Histories(s_updated["t1"])[i] # Histories(s_existing["t1"])[i]

\* C22: when a successful merge writes a record for an identifier the store
\* holds nothing for, the record's status history is exactly one entry with
\* the entity's status, its score history is exactly one entry with the
\* entity's score if it has one and is empty otherwise, its odds history
\* likewise, every entry is stamped with the creation instant, and creation
\* and last-update timestamps are equal.
C22_CreationSeedsHistories ==
  [][\A t \in Threads :
       LET m == CurMatch(t)
           doc == store'[m.match_id]
       IN (Upserted(t) /\ store[m.match_id] = None) =>
            /\ doc # None
            /\ doc.created_at = doc.last_updated
            /\ doc.status_history =
                 <<[timestamp |-> doc.created_at, status |-> StatusValue(m.status)]>>
            /\ Len(doc.score_history) = (IF m.score # None THEN 1 ELSE 0)
            /\ Len(doc.odds_history) = (IF m.odds # None THEN 1 ELSE 0)
            /\ \A i \in 1..3 :
                 FacetPresent(i, m) =>
                   Histories(doc)[i] = <<FacetEntry(i, m, doc.created_at.iso)>>]_vars

\* one batch created two records, one of an entity with score and odds and
\* one of an entity with neither
C22_Witness ==
  /\ s_pc["t1"] = "returned"
  /\ s_count["t1"] = 2
  /\ \E id \in Ids :
       /\ store[id] # None
       /\ store[id].created_at.iso >= 0
       /\ store[id].score = None
       /\ store[id].score_history = <<>>
       /\ store[id].odds_history = <<>>
       /\ Len(store[id].status_history) = 1
  /\ \E id \in Ids :
       /\ store[id] # None
       /\ store[id].created_at.iso >= 0
       /\ Len(store[id].score_history) = 1
       /\ Len(store[id].odds_history) = 1
       /\ Len(store[id].status_history) = 1

\* C23: merges of two threads for one identifier are not atomic.  Every
\* successful upsert replaces the whole stored record by the document the
\* writing thread built from the record it read earlier, whatever another
\* thread wrote in between: each history of the record after the write is
\* the history that thread read with at most one entry appended, so the
\* later upsert wins and entries written in between are dropped.
C23_LastWriteWins ==
  [][\A t \in Threads :
       Upserted(t) =>
         LET id == CurMatch(t).match_id IN
         /\ store'[id] = s_updated[t]
         /\ s_existing[t] # None =>
              \A i \in 1..3 :
                AppendedAndTrimmed(Histories(s_existing[t])[i],
                                   Histories(store'[id])[i])]_vars

\* both threads read the same prior record; t1 appended a status entry and
\* wrote first, t2 wrote last: the persisted record is t2's and the entry
\* t1 appended is missing from it
C23_Witness ==
  /\ s_pc["t1"] = "returned"
  /\ s_pc["t2"] = "returned"
  /\ s_count["t1"] = 1
  /\ s_count["t2"] = 1
  /\ s_existing["t1"] # None
  /\ s_existing["t1"] = s_existing["t2"]
  /\ s_updated["t1"].status_history =
       LastN(Append(s_existing["t1"].status_history,
                    s_updated["t1"].status_history[Len(s_updated["t1"].status_history)]),
             max_history_entries)
  /\ s_updated["t1"].status_history # s_existing["t1"].status_history
  /\ store["m1"] = s_updated["t2"]
  /\ store["m1"] # s_updated["t1"]
  /\ store["m1"].status_history = s_existing["t1"].status_history

\* thread k leaves _do_smart_refresh's own code in this step: it returns a
\* result ("update") or its handler falls back to _do_full_refresh
SmartRefreshStep(k) == m_pc[k] = "smart" /\ m_pc'[k] # "smart"

\* C24: a smart refresh that leaves the stored markup as it was and returns
\* has found the content unchanged: it returns the previous entity list
\* (last_matches, not a new extraction of the markup) and leaves the stored
\* markup, the last observation and the last-full-refresh instant unchanged.
\* A smart refresh that replaces the stored markup extracts the new markup:
\* it returns that extraction's result, or falls back to a full refresh when
\* the extraction raises.
C24_SmartRefreshUnchanged ==
  [][\A k \in MonThreads :
       SmartRefreshStep(k) =>
         /\ (last_html' = last_html /\ m_pc'[k] = "update") =>
              /\ m_matches'[k] = last_matches
              /\ last_matches' = last_matches
              /\ last_full_refresh' = last_full_refresh
         /\ last_html' # last_html =>
              /\ last_matches' = last_matches
              /\ last_full_refresh' = last_full_refresh
              /\ IF ParseFails(last_html')
                 THEN m_pc'[k] = "fallback"
                 ELSE m_pc'[k] = "update" /\ m_matches'[k] = parse_html(last_html')]_vars

\* the second iteration found the content unchanged: the stored markup is
\* the empty page the first iteration fetched, and the list returned is the
\* earlier observation, which an extraction of that markup would not give
C24_Witness ==
  \E k \in MonThreads :
    /\ m_pc[k] = "update"
    /\ m_iters[k] = 2
    /\ m_loads[k] = 1
    /\ last_html = "pEmpty"
    /\ last_matches # <<>>
    /\ m_matches[k] = last_matches
    /\ m_matches[k] # parse_html(last_html)

\* C25: a failure inside a smart refresh never takes the iteration to the
\* error handler directly: the thread goes on to a full refresh within the
\* same iteration.  That fallback either returns, and then the iteration's
\* result is the extraction of the page it fetched (with last_full_refresh
\* and the adapter renewed), or raises, and only then the iteration enters
\* the error handler.
C25_SmartFallsBackToFull ==
  [][\A k \in MonThreads :
       /\ m_pc[k] = "smart" => m_pc'[k] \in {"smart", "update", "fallback"}
       /\ (m_pc[k] = "fallback" /\ m_pc'[k] # "fallback") =>
            /\ m_iters'[k] = m_iters[k]
            /\ m_loads'[k] = m_loads[k] + 1
            /\ \/ /\ m_pc'[k] = "update"
                  /\ last_full_refresh' = now'
                  /\ chrome' = "alive"
                  /\ ~ParseFails(last_html')
                  /\ m_matches'[k] = parse_html(last_html')
               \/ /\ m_pc'[k] = "except"
                  /\ \/ UNCHANGED <<last_html, last_full_refresh, now>>
                     \/ ParseFails(last_html')]_vars

\* the in-place reload of the first iteration failed with the browser
\* dead: the thread is in the fallback full refresh, not in the error handler
C25_Witness ==
  \E k \in MonThreads :
    /\ m_pc[k] = "fallback"
    /\ m_iters[k] = 1
    /\ m_loads[k] = 1
    /\ chrome = "dead"
    /\ last_matches # <<>>

\* C26: the error handler of an iteration pauses RecoveryPause seconds and
\* makes exactly one recovery full refresh; whether that succeeds or raises,
\* the thread goes on to the longer wait (ErrorWait seconds, cut short only
\* by the stop signal) without another refresh, and from there back to the
\* loop condition, still in the loop and in the same iteration count.
C26_ErrorBackoff ==
  [][\A k \in MonThreads :
       /\ (m_pc[k] = "except" /\ m_pc'[k] # "except") =>
            /\ m_pc'[k] = "error_wait"
            /\ now' >= now + RecoveryPause
            /\ m_loads'[k] = m_loads[k] + 1
            /\ m_iters'[k] = m_iters[k]
       /\ (m_pc[k] = "error_wait" /\ m_pc'[k] # "error_wait") =>
            /\ m_pc'[k] = "top"
            /\ now' = (IF stop_event THEN now ELSE now + ErrorWait)
            /\ m_loads'[k] = m_loads[k]
            /\ m_iters'[k] = m_iters[k]]_vars

\* the full refresh of the first iteration failed and so did the recovery:
\* after both pauses the thread is back at the loop condition, not stopped,
\* having loaded three times (initial, refresh, one recovery)
C26_Witness ==
  \E k \in MonThreads :
    /\ m_pc[k] = "top"
    /\ ~stop_event
    /\ m_iters[k] = 1
    /\ m_loads[k] = 3
    /\ chrome = "dead"
    /\ now = last_full_refresh + RecoveryPause + ErrorWait

\* C27: the loop body chooses a full refresh if and only if more than
\* full_refresh_timeout seconds have passed since the last full refresh or
\* the adapter is not alive, and a smart refresh otherwise, whatever the
\* time passed, more than a day included.
C27_FullRefreshChoice ==
  [][\A k \in MonThreads :
       (m_pc[k] = "iter" /\ m_pc'[k] \in {"full", "smart"}) =>
         (m_pc'[k] = "full" <=>
            (now - last_full_refresh > full_refresh_timeout \/ chrome # "alive"))]_vars

\* in this step a refresh of thread k's iteration hands markup to the
\* extractor and the extractor raises ParseError: a smart refresh that
\* stored changed markup, or a full refresh that loaded a page
ExtractionRaises(k) ==
  \/ /\ m_pc[k] = "smart"
     /\ last_html' # last_html
     /\ ParseFails(last_html')
  \/ /\ InFullRefresh(k)
     /\ m_loads'[k] = m_loads[k] + 1
     /\ last_full_refresh' = now'
     /\ now' > now
     /\ ParseFails(last_html')

\* C28: a ParseError raised by the extraction of a refresh, smart or full,
\* reaches the handler of the loop body: the iteration enters the error
\* handler in that step.
C28_ParseErrorSurfaces ==
  [][\A k \in MonThreads :
       ExtractionRaises(k) => m_pc'[k] = "except"]_vars

\* the part of C28 that the program keeps: a ParseError raised inside a
\* full refresh reaches the handler of the loop body
C28_FullRefreshParseErrorSurfaces ==
  [][\A k \in MonThreads :
       (ExtractionRaises(k) /\ InFullRefresh(k)) => m_pc'[k] = "except"]_vars

\* this step is a pass of the supervising loop
SupervisionPass == o_pc = "loop" /\ o_passes' = o_passes + 1

\* C29: whenever a store is configured and more than the cleanup interval
\* has passed since the last successful sweep, the pass of the supervising
\* loop runs the sweep; a sweep that returns renews the cadence, a sweep
\* that raises leaves the cadence and the loop as they are, so that the
\* next pass tries again.
C29_MaintenanceCadence ==
  [][(/\ SupervisionPass
      /\ auto_store
      /\ now - o_last_cleanup > CLEANUP_INTERVAL_HOURS * SecondsPerHour) =>
       /\ sweeps' = sweeps + 1
       /\ \/ o_last_cleanup' = now
          \/ o_last_cleanup' = o_last_cleanup /\ o_pc' = "loop"]_vars

\* the part of C29 that the program keeps: within a day of the last
\* successful sweep
C29_CadenceWithinADay ==
  [][(/\ SupervisionPass
      /\ auto_store
      /\ now - o_last_cleanup > CLEANUP_INTERVAL_HOURS * SecondsPerHour
      /\ now - o_last_cleanup < SecondsPerDay) =>
       /\ sweeps' = sweeps + 1
       /\ \/ o_last_cleanup' = now
          \/ o_last_cleanup' = o_last_cleanup /\ o_pc' = "loop"]_vars

\* the price collected from the i-th selection container of c: absent for a
\* locked or missing selection
CollectedPrice(c, i) ==
  IF i > Len(c.selections) \/ c.selections[i].locked THEN NoneStr
  ELSE c.selections[i].price

\* C30: when the selection containers yield a price for one of the first
\* two positions, the entity's odds hold the price collected at the first
\* position as participant 1's moneyline and the one collected at the second
\* as participant 2's, a locked selection counting as an absent price in its
\* place; with a single selection only participant 1's moneyline is filled.
C30_OddsAssignment ==
  (p_pc = "done" /\ p_c # None /\ p_res.kind = "match") =>
    ((Truthy(CollectedPrice(p_c, 1)) \/ Truthy(CollectedPrice(p_c, 2))) =>
       /\ p_res.match.odds # None
       /\ p_res.match.odds.player1_moneyline = CollectedPrice(p_c, 1)
       /\ p_res.match.odds.player2_moneyline = CollectedPrice(p_c, 2)
       /\ Len(p_c.selections) = 1 => p_res.match.odds.player2_moneyline = NoneStr)

\* the first selection is locked and shows a price, the second is open: the
\* entity's odds have no moneyline for participant 1 and the second price
\* for participant 2
C30_Witness ==
  /\ p_pc = "done"
  /\ p_c # None
  /\ Len(p_c.selections) >= 2
  /\ p_c.selections[1] = Selection(TRUE, "-150")
  /\ p_c.selections[2] = Selection(FALSE, "+120")
  /\ p_res.kind = "match"
  /\ p_res.match.odds # None
  /\ p_res.match.odds.player1_moneyline = NoneStr
  /\ p_res.match.odds.player2_moneyline = "+120"

C31_WitnessNoOdds ==
  /\ p_pc = "done"
  /\ p_c # None
  /\ Len(p_c.selections) = 2
  /\ p_c.selections[1] = Selection(TRUE, NoneStr)
  /\ p_c.selections[2] = Selection(FALSE, "")
  /\ p_c.odds_matches = <<>>
  /\ p_res.kind = "match"
  /\ p_res.match.odds = None

\* the names found by the selectors and, when they are fewer than two, the
\* two names of the "A vs B" pattern of the text in their place
RecoveredNames(c) ==
  IF Len(c.players) >= 2 \/ c.vs_match = <<>> THEN c.players
  ELSE <<CleanName(c.vs_match[1]), CleanName(c.vs_match[2])>>

\* C32: an entity returned by the extractor has a non-empty identifier and
\* the two participants recovered from its container, and a container from
\* which fewer or more than two participants are recovered, by the
\* selectors and then by the "A vs B" pattern, yields no entity.
C32_TwoParticipants ==
  (p_pc = "done" /\ p_c # None) =>
    /\ p_res.kind = "match" =>
         /\ Truthy(p_res.match.match_id)
         /\ Len(RecoveredNames(p_c)) = 2
         /\ p_res.match.player1 = Player(RecoveredNames(p_c)[1])
         /\ p_res.match.player2 = Player(RecoveredNames(p_c)[2])
    /\ Len(RecoveredNames(p_c)) # 2 => p_res.kind = "none"

\* the selectors find one name, the text holds "+120 A vs B 3/1": the entity
\* has the two names of the pattern, cleaned of their tokens
C32_Witness ==
  /\ p_pc = "done"
  /\ p_c # None
  /\ Len(p_c.players) = 1
  /\ p_c.vs_match = <<<<"+120", "A">>, <<"B", "3/1">>>>
  /\ p_res.kind = "match"
  /\ p_res.match.player1.name = "A"
  /\ p_res.match.player2.name = "B"

\* the selectors find three names: no entity
C32_WitnessSkipped ==
  /\ p_pc = "done"
  /\ p_c # None
  /\ Len(p_c.players) = 3
  /\ p_c.vs_match # <<>>
  /\ p_res.kind = "none"

\* the threads of the scheduler that have entered _monitor_loop and not
\* left it
Running == {k \in DOMAIN m_pc : m_pc[k] \in {"initial", "initial_cb"} \cup LoopPcs}

\* C33: at most one monitoring thread of a scheduler is executing the loop
\* at any time.
C33_SingleLoop == Cardinality(Running) <= 1

\* C33: start_monitoring raises ScraperError while a previously started
\* loop has not yet finished: no start_monitoring call starts a thread
\* while another thread is inside _monitor_loop.
C33_StartRefusedWhileRunning ==
  [][starts' = starts + 1 => Running = {}]_vars

\* C33: a stop signal set for a running loop is not cleared before that
\* loop has observed it at its loop condition.
C33_StopNotCleared ==
  [][(stop_event /\ ~stop_event') => Running = {}]_vars

\* C34: whatever merges run beside the sweep, a record the sweep deletes
\* has, at the moment of its deletion, a last-update timestamp that is not
\* later than the sweep's cutoff.
C34_SweepSparesFreshRecords ==
  [][\A id \in Ids :
       (store[id] # None /\ store'[id] = None) =>
         store[id].last_updated.iso <= d_cutoff]_vars

\* C35: when a loop iteration completes without error, last_matches is the
\* entity list extracted from last_html, an empty list included; and a
\* SmartRefresh that finds the markup unchanged returns the entities of the
\* markup stored, the page currently shown.
C35_ObservationMatchesMarkup ==
  [][\A k \in MonThreads :
       /\ (m_pc[k] = "update" /\ m_pc'[k] = "wait") =>
            last_matches' = parse_html(last_html')
       /\ (m_pc[k] = "smart" /\ m_pc'[k] = "update" /\ last_html' = last_html) =>
            m_matches'[k] = parse_html(last_html)]_vars

\* C36: every record a scheduler with auto-store persists carries, as its
\* grouping label, the name of the source the entity came from.
C36_StoredLabelIsSource ==
  [][\A id \in Ids :
       (store'[id] # store[id] /\ store'[id] # None) =>
         store'[id].league = Leagues[o_i]]_vars

\* C36: the label is assigned to an entity before the entity is merged:
\* no merge of the list precedes the assignment.
C36_LabelBeforeMerge ==
  [][(p_pc = "returned" /\ p_pc' = "labelled") => calls = 0]_vars

\* C37: the document of every merge is stamped, as last_updated, with the
\* time of the merge, whether or not a facet changed, and a successful
\* upsert makes it the record; so in every record last_updated is not
\* earlier than created_at, and a record just merged is younger than the
\* retention cutoff of any sweep.
C37_MergeRefreshesLastUpdated ==
  [][/\ \A t \in Threads :
          /\ (s_pc[t] = "build" /\ s_pc'[t] = "upsert") =>
               /\ s_updated'[t].last_updated = IsoFormat(Datetime(now))
               /\ \A days \in Days :
                    ~IsoLE(s_updated'[t].last_updated, IsoFormat(Datetime(now - days)))
          /\ Upserted(t) => store'[s_updated[t].id] = s_updated[t]
     /\ \A id \in Ids :
          store'[id] # None => IsoLE(store'[id].created_at, store'[id].last_updated)]_vars

\* a merge that read a record and changed none of its histories has been
\* upserted: the record's last_updated is later than the one read
C37_Witness ==
  /\ s_count["t1"] >= 1
  /\ s_existing["t1"] # None
  /\ s_updated["t1"] # None
  /\ store[s_updated["t1"].id] = s_updated["t1"]
  /\ Histories(s_updated["t1"]) = Histories(s_existing["t1"])
  /\ s_updated["t1"].last_updated.iso > s_existing["t1"].last_updated.iso
  /\ s_updated["t1"].last_updated.iso > s_updated["t1"].created_at.iso

\* the step of thread k is a FullRefresh that fails: _do_full_refresh
\* called by the loop or by the fallback of the smart refresh, or the
\* initial get_matches
FullRefreshFails(k) ==
  \/ InFullRefresh(k) /\ m_pc'[k] = "except"
  \/ m_pc[k] = "initial" /\ m_pc'[k] = AfterInitialFailure

\* C38: a FullRefresh that fails, in the fetch or in the extraction of the
\* document, leaves last_matches, last_html and last_full_refresh as they
\* were before the attempt.
C38_FailedFullRefreshFrame ==
  [][\A k \in MonThreads :
       FullRefreshFails(k) =>
         UNCHANGED <<last_matches, last_html, last_full_refresh>>]_vars

\* C38, for the failures of the fetch alone
C38_FailedFetchFrame ==
  [][\A k \in MonThreads :
       (FullRefreshFails(k) /\ ~ParseFails(last_html')) =>
         UNCHANGED <<last_matches, last_html, last_full_refresh>>]_vars

\* C39: a pass of the supervising loop made when the time since start_time
\* has reached MAX_RUNTIME_HOURS leaves the loop and starts the shutdown.
C39_MaxRuntimeExits ==
  [][(SupervisionPass /\ now - o_start >= MAX_RUNTIME_HOURS * SecondsPerHour) =>
       o_pc' = "stop_all"]_vars

\* C39, for a limit of RunHours hours, below a day
C39_ShortRuntimeExits ==
  [][(SupervisionPass /\ now - o_start >= RunHours * SecondsPerHour) =>
       o_pc' = "stop_all"]_vars
====
